---- MODULE Spec2Model ----
(***************************************************************************)
(* Portfolio ledger of src/src/models/portfolio_tracker.py                 *)
(* (class PortfolioTracker): the SQLite tables positions, transactions,    *)
(* recommendations and portfolio_snapshots, the tracker's in-memory        *)
(* position cache, and the operations that read and write them.            *)
(*                                                                         *)
(* REAL columns are modelled as exact rationals <<n, d>> (d > 0, lowest    *)
(* terms); quantities, prices and commissions are drawn from integers.     *)
(* Time is the wall clock in whole seconds; every datetime.now() of one    *)
(* call reads the same second.  The columns entry_date, last_updated,      *)
(* notes, reasoning, confidence, target_price, stop_loss, outcome_score    *)
(* and positions_json are never read by the modelled operations and are    *)
(* left out of the rows.                                                   *)
(*                                                                         *)
(* Recommendation engine of src/src/models/recommendation_engine.py        *)
(* (class RecommendationEngine): the engines constructed and the calls of  *)
(* generate_recommendation made on them.  Scores, weights and the          *)
(* composite are exact rationals; the rounding of binary floating point    *)
(* is not modelled.                                                        *)
(*                                                                         *)
(* Technical analyzer of src/src/analyzers/technical_analysis.py           *)
(* (calculate_all_indicators: which columns a frame gets) and holdings     *)
(* analyzer of src/src/models/portfolio_holdings_analyzer.py               *)
(* (analyze_all_holdings, analyze_single_holding and the summary), fed by  *)
(* get_stock_data and get_stock_info of src/src/data/market_data.py, whose *)
(* answers are inputs of the model.                                        *)
(***************************************************************************)
EXTENDS Integers, Sequences, FiniteSets, TLC

(***************************************************************************)
(* Bounds of the model and the input sets of the calls.                    *)
(***************************************************************************)
MaxTx == 2
MaxRecs == 1
MaxSnapshots == 1
MaxTicks == 1

Symbols == {"AAPL", "MSFT"}
Commissions == {1}

(* inputs of the trade arithmetic specification *)
TradeActions == {"BUY", "SELL"}
TradeQuantities == {0, 50, 100}
TradePrices == {150, 180}

(* inputs of the arbitrary-argument specification *)
ArbActions == {"BUY", "SELL", "HOLD", "buy"}
ArbQuantities == {-50, 0, 50, 100}
ArbPrices == {0, 150}
ArbCommissions == {0, 1}

(* inputs of the whole-tracker specification *)
Actions == {"BUY", "SELL"}
Quantities == {0, 50}
Prices == {150}
RecSymbols == {"AAPL"}
RecActions == {"BUY"}
MarketPrices == {160}
CashBalances == {0}

(* timedelta(minutes=5), in seconds *)
CacheTTL == 300

(***************************************************************************)
(* Exact rational arithmetic for the REAL columns.                         *)
(***************************************************************************)
Abs(x) == IF x < 0 THEN -x ELSE x

RECURSIVE Gcd(_, _)
Gcd(a, b) == IF b = 0 THEN a ELSE Gcd(b, a % b)

Rat(n, d) ==
    LET g == Gcd(Abs(n), Abs(d))
        s == IF d < 0 THEN -1 ELSE 1
    IN  <<(s * n) \div g, (s * d) \div g>>

RatInt(n) == <<n, 1>>
RatAdd(x, y) == Rat(x[1] * y[2] + y[1] * x[2], x[2] * y[2])
RatSub(x, y) == Rat(x[1] * y[2] - y[1] * x[2], x[2] * y[2])
RatMul(x, y) == Rat(x[1] * y[1], x[2] * y[2])
RatDiv(x, y) == Rat(x[1] * y[2], x[2] * y[1])
RatIsZero(x) == x[1] = 0
RatPos(x) == x[1] > 0

(***************************************************************************)
(* Finite maps (table keyed by primary key, dict).                         *)
(***************************************************************************)
EmptyMap == [k \in {} |-> 0]
Put(f, k, v) == [x \in (DOMAIN f) \cup {k} |-> IF x = k THEN v ELSE f[x]]
Remove(f, k) == [x \in (DOMAIN f) \ {k} |-> f[x]]

(* str.upper() on the action strings of the model *)
Upper(action) ==
    CASE action = "buy" -> "BUY"
      [] action = "sell" -> "SELL"
      [] action = "hold" -> "HOLD"
      [] OTHER -> action

(* a nullable value: None, or Some(x) *)
None == <<>>
Some(x) == <<x>>

(* recommendation_id = None *)
NoRec == <<>>

VARIABLES
    positions,          \* table positions: symbol -> [quantity, avg_cost]
    transactions,       \* table transactions, in insertion order
    recommendations,    \* table recommendations: recommendation_id -> row
    snapshots,          \* table portfolio_snapshots, in insertion order
    cache,              \* self._positions_cache: symbol -> Position
    cache_expiry,       \* self._cache_expiry
    clock,              \* datetime.now(), in seconds
    last,               \* the latest call: its arguments and its outcome
    engines,            \* the RecommendationEngine objects: id -> object
    calls               \* the calls of generate_recommendation, in order

vars == <<positions, transactions, recommendations, snapshots,
          cache, cache_expiry, clock, last, engines, calls>>

(* the three tables a ledger write touches, as seen through one connection *)
Db == [positions |-> positions, transactions |-> transactions,
       recommendations |-> recommendations]

Init ==
    /\ positions = EmptyMap
    /\ transactions = <<>>
    /\ recommendations = EmptyMap
    /\ snapshots = <<>>
    /\ cache = EmptyMap
    /\ cache_expiry = 0
    /\ clock = 0
    /\ last = [op |-> "init", ok |-> TRUE, error |-> "none"]
    /\ engines = EmptyMap
    /\ calls = <<>>

(***************************************************************************)
(* execute_transaction and _update_position.  A step works on the          *)
(* connection's view w = [db, error]; once an exception is raised the      *)
(* remaining statements are skipped.                                       *)
(***************************************************************************)
(* a table without a primary key: no id is ever taken *)
TransactionIdsUnkeyed(txs) == {}

(* the primary keys of the transactions table *)
TransactionIds(txs) == {txs[i].transaction_id : i \in 1..Len(txs)}

(* INSERT OR REPLACE: a duplicate id overwrites the row that holds it *)
InsertOrReplaceTransaction(w, row) ==
    IF w.error # "none" THEN w
    ELSE IF row.transaction_id \in TransactionIds(w.db.transactions)
         THEN [w EXCEPT !.db.transactions =
                  [i \in 1..Len(@) |->
                      IF @[i].transaction_id = row.transaction_id THEN row ELSE @[i]]]
         ELSE [w EXCEPT !.db.transactions = Append(@, row)]

(* INSERT INTO transactions: the primary key rejects a duplicate id *)
InsertTransaction(w, row) ==
    IF w.error # "none" THEN w
    ELSE IF row.transaction_id \in TransactionIds(w.db.transactions)
         THEN [w EXCEPT !.error = "IntegrityError"]
         ELSE [w EXCEPT !.db.transactions = Append(@, row)]

(* the plain mean of the old cost and the new price, not weighted by quantity *)
BuyExistingUnweighted(cur, quantity, price) ==
    [quantity |-> cur.quantity + quantity,
     avg_cost |-> RatDiv(RatAdd(cur.avg_cost, RatInt(price)), RatInt(2))]

BuyExisting(cur, quantity, price) ==
    LET total_cost == RatAdd(RatMul(RatInt(cur.quantity), cur.avg_cost),
                             RatInt(quantity * price))
        new_quantity == cur.quantity + quantity
    IN  [quantity |-> new_quantity,
         avg_cost |-> RatDiv(total_cost, RatInt(new_quantity))]

(* the cost basis kept whole and spread over the remaining shares *)
SellExistingKeepsBasis(cur, new_quantity) ==
    [quantity |-> new_quantity,
     avg_cost |-> RatDiv(RatMul(RatInt(cur.quantity), cur.avg_cost), RatInt(new_quantity))]

(* lines 283-288: the UPDATE of a reduced position sets quantity only *)
SellExisting(cur, new_quantity) == [cur EXCEPT !.quantity = new_quantity]

UpdatePosition(w, symbol, action, quantity, price) ==
    LET pos == w.db.positions
        has == symbol \in DOMAIN pos
    IN  IF w.error # "none" THEN w
        ELSE IF Upper(action) = "BUY"
        THEN IF has
             THEN IF pos[symbol].quantity + quantity = 0
                  THEN [w EXCEPT !.error = "ZeroDivisionError"]
                  ELSE [w EXCEPT !.db.positions =
                           Put(pos, symbol, BuyExisting(pos[symbol], quantity, price))]
             ELSE [w EXCEPT !.db.positions =
                      Put(pos, symbol, [quantity |-> quantity, avg_cost |-> RatInt(price)])]
        ELSE IF Upper(action) = "SELL"
        THEN IF has
             THEN LET new_quantity == pos[symbol].quantity - quantity
                  IN  IF new_quantity <= 0
                      THEN [w EXCEPT !.db.positions = Remove(pos, symbol)]
                      ELSE [w EXCEPT !.db.positions =
                               Put(pos, symbol, SellExisting(pos[symbol], new_quantity))]
             ELSE w
        ELSE w

(* UPDATE recommendations SET executed = 1 ... WHERE recommendation_id = ? *)
MarkExecuted(w, recommendation_id, price, timestamp) ==
    IF w.error # "none" THEN w
    ELSE IF recommendation_id # NoRec /\ recommendation_id \in DOMAIN w.db.recommendations
         THEN [w EXCEPT !.db.recommendations[recommendation_id] =
                  [@ EXCEPT !.executed = TRUE,
                            !.execution_price = Some(price),
                            !.execution_date = Some(timestamp)]]
         ELSE w

(* every statement committed as it runs: nothing is rolled back *)
ConnExitAutocommit(before, w) == w.db

(* leaving "with sqlite3.connect(...) as conn": commit, or roll back on an exception *)
ConnExit(before, w) == IF w.error # "none" THEN before ELSE w.db

(* the cache left as it is *)
ClearCacheSkipped == [cache |-> cache, cache_expiry |-> cache_expiry]

(* _clear_cache *)
ClearCache == [cache |-> EmptyMap, cache_expiry |-> clock]

TotalCost(action, quantity, price, commission) ==
    IF Upper(action) = "BUY" THEN quantity * price + commission
    ELSE quantity * price - commission

NewTransaction(symbol, action, quantity, price, commission, recommendation_id) ==
    [transaction_id |-> <<action, symbol, clock>>,
     symbol |-> symbol,
     action |-> Upper(action),
     quantity |-> quantity,
     price |-> price,
     total_cost |-> TotalCost(action, quantity, price, commission),
     commission |-> commission,
     timestamp |-> clock,
     recommendation_id |-> recommendation_id]

ExecuteTransaction(symbol, action, quantity, price, commission, recommendation_id) ==
    LET row == NewTransaction(symbol, action, quantity, price, commission, recommendation_id)
        w0 == [db |-> Db, error |-> "none"]
        w1 == InsertTransaction(w0, row)
        w2 == UpdatePosition(w1, symbol, action, quantity, price)
        w3 == MarkExecuted(w2, recommendation_id, price, row.timestamp)
        out == ConnExit(Db, w3)
    IN  /\ Len(transactions) < MaxTx
        /\ positions' = out.positions
        /\ transactions' = out.transactions
        /\ recommendations' = out.recommendations
        /\ IF w3.error = "none"
           THEN /\ cache' = ClearCache.cache
                /\ cache_expiry' = ClearCache.cache_expiry
           ELSE UNCHANGED <<cache, cache_expiry>>
        /\ last' = [op |-> "execute_transaction", symbol |-> symbol, action |-> action,
                    quantity |-> quantity, price |-> price, commission |-> commission,
                    recommendation_id |-> recommendation_id,
                    ok |-> (w3.error = "none"), error |-> w3.error]
        /\ UNCHANGED <<snapshots, clock, engines, calls>>

(***************************************************************************)
(* add_recommendation: one INSERT; executed defaults to 0 and the          *)
(* execution columns to NULL.  The position cache is not touched.          *)
(***************************************************************************)
(* the row stored as already executed *)
NewRecommendationExecuted(symbol, action) ==
    [symbol |-> symbol, action |-> action, timestamp |-> clock,
     executed |-> TRUE, execution_price |-> None, execution_date |-> None]

NewRecommendation(symbol, action) ==
    [symbol |-> symbol, action |-> action, timestamp |-> clock,
     executed |-> FALSE, execution_price |-> None, execution_date |-> None]

AddRecommendation(symbol, action) ==
    LET recommendation_id == <<symbol, action, clock>>
        dup == recommendation_id \in DOMAIN recommendations
    IN  /\ Cardinality(DOMAIN recommendations) < MaxRecs
        /\ recommendations' =
              IF dup THEN recommendations
              ELSE Put(recommendations, recommendation_id, NewRecommendation(symbol, action))
        /\ last' = [op |-> "add_recommendation", symbol |-> symbol, action |-> action,
                    ok |-> ~dup, error |-> IF dup THEN "IntegrityError" ELSE "none"]
        /\ UNCHANGED <<positions, transactions, snapshots, cache, cache_expiry, clock,
                       engines, calls>>

(***************************************************************************)
(* get_positions.  A Position carries quantity, avg_cost, current_price,   *)
(* market_value, unrealized_pnl and unrealized_pnl_pct.                    *)
(***************************************************************************)
Hundred == <<100, 1>>
Zero == <<0, 1>>

(* lines 300-303: a cached position re-priced; None when the division raises *)
CachedPosition(position, current_price) ==
    LET basis == RatMul(RatInt(position.quantity), position.avg_cost)
        market_value == RatMul(RatInt(position.quantity), current_price)
        unrealized_pnl == RatSub(market_value, basis)
    IN  IF RatIsZero(basis) THEN None
        ELSE Some([quantity |-> position.quantity,
                   avg_cost |-> position.avg_cost,
                   current_price |-> current_price,
                   market_value |-> market_value,
                   unrealized_pnl |-> unrealized_pnl,
                   unrealized_pnl_pct |-> RatMul(RatDiv(unrealized_pnl, basis), Hundred)])

(* lines 325-342: a row of the positions table priced *)
StoredPosition(row, prices, symbol) ==
    LET current_price == IF symbol \in DOMAIN prices THEN RatInt(prices[symbol])
                         ELSE row.avg_cost
        basis == RatMul(RatInt(row.quantity), row.avg_cost)
        market_value == RatMul(RatInt(row.quantity), current_price)
        unrealized_pnl == RatSub(market_value, basis)
    IN  [quantity |-> row.quantity,
         avg_cost |-> row.avg_cost,
         current_price |-> current_price,
         market_value |-> market_value,
         unrealized_pnl |-> unrealized_pnl,
         unrealized_pnl_pct |-> IF RatPos(basis)
                                THEN RatMul(RatDiv(unrealized_pnl, basis), Hundred)
                                ELSE Zero]

CacheHit(c, prices) ==
    /\ clock < c.cache_expiry
    /\ c.cache # EmptyMap
    /\ \A symbol \in DOMAIN c.cache : symbol \in DOMAIN prices

(* one call of get_positions on the tracker state c = [cache, cache_expiry]:
   the tracker state after it, the list returned and the exception raised *)
GetPositionsCall(c, prices) ==
    IF CacheHit(c, prices)
    THEN LET priced == [symbol \in DOMAIN c.cache |->
                           CachedPosition(c.cache[symbol], RatInt(prices[symbol]))]
         IN  IF \E symbol \in DOMAIN priced : priced[symbol] = None
             THEN [c |-> c, path |-> "cache", error |-> "ZeroDivisionError",
                   result |-> EmptyMap]
             ELSE [c |-> c, path |-> "cache", error |-> "none",
                   result |-> [symbol \in DOMAIN priced |-> priced[symbol][1]]]
    ELSE LET fetched == [symbol \in DOMAIN positions |->
                            StoredPosition(positions[symbol], prices, symbol)]
         IN  [c |-> [cache |-> [symbol \in (DOMAIN c.cache) \cup (DOMAIN fetched) |->
                                   IF symbol \in DOMAIN fetched THEN fetched[symbol]
                                   ELSE c.cache[symbol]],
                     cache_expiry |-> clock + CacheTTL],
              path |-> "db", error |-> "none", result |-> fetched]

Tracker == [cache |-> cache, cache_expiry |-> cache_expiry]

GetPositions(current_prices) ==
    LET g == GetPositionsCall(Tracker, current_prices)
    IN  /\ cache' = g.c.cache
        /\ cache_expiry' = g.c.cache_expiry
        /\ last' = [op |-> "get_positions", prices |-> current_prices, path |-> g.path,
                    ok |-> (g.error = "none"), error |-> g.error, result |-> g.result]
        /\ UNCHANGED <<positions, transactions, recommendations, snapshots, clock,
                       engines, calls>>

(***************************************************************************)
(* save_portfolio_snapshot: get_positions, then get_portfolio_summary      *)
(* (which calls get_positions again), then one INSERT.                     *)
(***************************************************************************)
RECURSIVE SumOver(_, _, _)
SumOver(S, f, field) ==
    IF S = {} THEN Zero
    ELSE LET x == CHOOSE y \in S : TRUE
         IN  RatAdd(f[x][field], SumOver(S \ {x}, f, field))

(* _calculate_daily_return: against the second most recent snapshot; any
   exception (a zero total_value) is swallowed and gives 0.0 *)
CalculateDailyReturn(snaps, current_value) ==
    IF Len(snaps) >= 2
    THEN LET yesterday_value == snaps[Len(snaps) - 1].total_value
         IN  IF RatIsZero(yesterday_value) THEN Zero
             ELSE RatMul(RatDiv(RatSub(current_value, yesterday_value), yesterday_value),
                         Hundred)
    ELSE Zero

PortfolioSummary(held, cash_balance) ==
    LET total_positions_value == SumOver(DOMAIN held, held, "market_value")
        total_unrealized_pnl == SumOver(DOMAIN held, held, "unrealized_pnl")
        total_portfolio_value == RatAdd(total_positions_value, RatInt(cash_balance))
    IN  [total_portfolio_value |-> total_portfolio_value,
         positions_value |-> total_positions_value,
         total_unrealized_pnl |-> total_unrealized_pnl,
         daily_return |-> CalculateDailyReturn(snapshots, total_portfolio_value)]

SnapshotIds(snaps) == {snaps[i].snapshot_id : i \in 1..Len(snaps)}

SavePortfolioSnapshot(current_prices, cash_balance) ==
    LET g1 == GetPositionsCall(Tracker, current_prices)
        g2 == IF g1.error = "none" THEN GetPositionsCall(g1.c, current_prices) ELSE g1
        summary == PortfolioSummary(g2.result, cash_balance)
        snapshot_id == <<"snapshot", clock>>
        error == IF g2.error # "none" THEN g2.error
                 ELSE IF snapshot_id \in SnapshotIds(snapshots) THEN "IntegrityError"
                 ELSE "none"
    IN  /\ Len(snapshots) < MaxSnapshots
        /\ cache' = g2.c.cache
        /\ cache_expiry' = g2.c.cache_expiry
        /\ snapshots' =
              IF error # "none" THEN snapshots
              ELSE Append(snapshots,
                          [snapshot_id |-> snapshot_id,
                           timestamp |-> clock,
                           total_value |-> summary.total_portfolio_value,
                           cash_balance |-> cash_balance,
                           positions_value |-> summary.positions_value,
                           total_pnl |-> summary.total_unrealized_pnl,
                           daily_return |-> summary.daily_return])
        /\ last' = [op |-> "save_portfolio_snapshot", prices |-> current_prices,
                    cash_balance |-> cash_balance,
                    ok |-> (error = "none"), error |-> error]
        /\ UNCHANGED <<positions, transactions, recommendations, clock, engines, calls>>

(***************************************************************************)
(* The wall clock: a second passes, or the cache's lifetime does.          *)
(***************************************************************************)
Elapsed == (clock \div CacheTTL) + (clock % CacheTTL)

Tick(d) ==
    /\ Elapsed < MaxTicks
    /\ clock' = clock + d
    /\ last' = [op |-> "tick", ok |-> TRUE, error |-> "none"]
    /\ UNCHANGED <<positions, transactions, recommendations, snapshots,
                   cache, cache_expiry, engines, calls>>

(***************************************************************************)
(* Trade arithmetic: execute_transaction over the trade inputs, a second   *)
(* passing between calls or not.                                           *)
(***************************************************************************)
Trade ==
    \E symbol \in Symbols, action \in TradeActions, quantity \in TradeQuantities,
       price \in TradePrices, commission \in Commissions :
         ExecuteTransaction(symbol, action, quantity, price, commission, NoRec)

Second == Tick(1)

NextTrades == Trade \/ Second

SpecTrades == Init /\ [][NextTrades]_vars

(***************************************************************************)
(* The whole tracker: every operation, over small inputs.                  *)
(***************************************************************************)
PriceMaps == UNION {[S -> MarketPrices] : S \in SUBSET Symbols}

Execute ==
    \E symbol \in Symbols, action \in Actions, quantity \in Quantities,
       price \in Prices, commission \in Commissions,
       recommendation_id \in {NoRec} \cup DOMAIN recommendations :
         ExecuteTransaction(symbol, action, quantity, price, commission, recommendation_id)

Recommend == \E symbol \in RecSymbols, action \in RecActions : AddRecommendation(symbol, action)

Query == \E current_prices \in PriceMaps : GetPositions(current_prices)

Snapshot ==
    \E current_prices \in PriceMaps, cash_balance \in CashBalances :
         SavePortfolioSnapshot(current_prices, cash_balance)

Expire == Tick(CacheTTL)

Next == Execute \/ Recommend \/ Query \/ Snapshot \/ Second \/ Expire

Spec == Init /\ [][Next]_vars

(***************************************************************************)
(* The position cache against the store: trades, queries and the passage   *)
(* of time.                                                                *)
(***************************************************************************)
NextCache == Execute \/ Query \/ Second \/ Expire

SpecCache == Init /\ [][NextCache]_vars

(***************************************************************************)
(* Trades linked to recommendations.                                       *)
(***************************************************************************)
NextLinked == Execute \/ Recommend \/ Second

SpecLinked == Init /\ [][NextLinked]_vars

(***************************************************************************)
(* The two logs: trades and snapshots.                                     *)
(***************************************************************************)
NextLogs == Execute \/ Snapshot \/ Second

SpecLogs == Init /\ [][NextLogs]_vars

(***************************************************************************)
(* execute_transaction called with arbitrary arguments.                    *)
(***************************************************************************)
Arbitrary ==
    \E symbol \in Symbols, action \in ArbActions, quantity \in ArbQuantities,
       price \in ArbPrices, commission \in ArbCommissions :
         ExecuteTransaction(symbol, action, quantity, price, commission, NoRec)

NextArbitrary == Arbitrary \/ Second

SpecArbitrary == Init /\ [][NextArbitrary]_vars

(***************************************************************************)
(* The recommendation engine.  A DataFrame is the sequence of its rows,    *)
(* oldest first; a row maps each column to a cell, NaN or Num(x).  Every   *)
(* comparison with NaN is false.  A stock_info dict maps "beta" to         *)
(* Some(tenths) or to None; no stock_info and an empty dict are EmptyMap.  *)
(***************************************************************************)
NaN == <<>>
Num(x) == <<x>>
IsNum(cell) == cell # NaN

RatLt(x, y) == x[1] * y[2] < y[1] * x[2]
RatAbs(x) == <<Abs(x[1]), x[2]>>
RatMin(x, y) == IF RatLt(y, x) THEN y ELSE x
Tenths(n) == Rat(n, 10)
Percent(n) == Rat(n, 100)

Join(f, g) == [c \in (DOMAIN f) \cup (DOMAIN g) |-> IF c \in DOMAIN f THEN f[c] ELSE g[c]]

(* _get_score_weights: an unrecognised profile takes the moderate weights *)
GetScoreWeights(risk_tolerance) ==
    IF risk_tolerance = "conservative"
    THEN [rsi |-> Percent(25), macd |-> Percent(20), moving_averages |-> Percent(30),
          bollinger_bands |-> Percent(15), volume |-> Percent(10)]
    ELSE IF risk_tolerance = "aggressive"
    THEN [rsi |-> Percent(15), macd |-> Percent(30), moving_averages |-> Percent(20),
          bollinger_bands |-> Percent(25), volume |-> Percent(10)]
    ELSE [rsi |-> Percent(20), macd |-> Percent(25), moving_averages |-> Percent(25),
          bollinger_bands |-> Percent(20), volume |-> Percent(10)]

(* RecommendationEngine.__init__ *)
RecommendationEngine(risk_tolerance) ==
    [risk_tolerance |-> risk_tolerance, score_weights |-> GetScoreWeights(risk_tolerance)]

CalculateRsiScoreInclusive(rsi_value) ==
    IF IsNum(rsi_value) /\ rsi_value[1] <= 30
    THEN [score |-> Tenths(8), reason |-> <<"RSI indicates oversold condition">>]
    ELSE IF IsNum(rsi_value) /\ rsi_value[1] <= 40
    THEN [score |-> Tenths(6), reason |-> <<"RSI shows potential buying opportunity">>]
    ELSE IF IsNum(rsi_value) /\ rsi_value[1] >= 70
    THEN [score |-> Tenths(-8), reason |-> <<"RSI indicates overbought condition">>]
    ELSE IF IsNum(rsi_value) /\ rsi_value[1] >= 60
    THEN [score |-> Tenths(-6), reason |-> <<"RSI suggests potential selling opportunity">>]
    ELSE [score |-> Zero, reason |-> <<"RSI in neutral range">>]

CalculateRsiScore(rsi_value) ==
    IF IsNum(rsi_value) /\ rsi_value[1] < 30
    THEN [score |-> Tenths(8), reason |-> <<"RSI indicates oversold condition">>]
    ELSE IF IsNum(rsi_value) /\ rsi_value[1] < 40
    THEN [score |-> Tenths(6), reason |-> <<"RSI shows potential buying opportunity">>]
    ELSE IF IsNum(rsi_value) /\ rsi_value[1] > 70
    THEN [score |-> Tenths(-8), reason |-> <<"RSI indicates overbought condition">>]
    ELSE IF IsNum(rsi_value) /\ rsi_value[1] > 60
    THEN [score |-> Tenths(-6), reason |-> <<"RSI suggests potential selling opportunity">>]
    ELSE [score |-> Zero, reason |-> <<"RSI in neutral range">>]

(* macd_data is data['macd'].tail(2) *)
CalculateMacdScore(macd_data) ==
    IF Len(macd_data) < 2
    THEN [score |-> Zero, reason |-> <<"Insufficient MACD data">>]
    ELSE LET current_macd == macd_data[Len(macd_data)]
             prev_macd == macd_data[Len(macd_data) - 1]
             pos == IsNum(current_macd) /\ current_macd[1] > 0
             neg == IsNum(current_macd) /\ current_macd[1] < 0
         IN  IF pos /\ IsNum(prev_macd) /\ prev_macd[1] <= 0
             THEN [score |-> Tenths(7), reason |-> <<"MACD bullish crossover detected">>]
             ELSE IF neg /\ IsNum(prev_macd) /\ prev_macd[1] >= 0
             THEN [score |-> Tenths(-7), reason |-> <<"MACD bearish crossover detected">>]
             ELSE IF pos
             THEN [score |-> Tenths(3), reason |-> <<"MACD above zero line">>]
             ELSE IF neg
             THEN [score |-> Tenths(-3), reason |-> <<"MACD below zero line">>]
             ELSE [score |-> Zero, reason |-> <<"MACD neutral">>]

RECURSIVE SumScores(_)
SumScores(scores) ==
    IF scores = <<>> THEN Zero ELSE RatAdd(Head(scores).score, SumScores(Tail(scores)))

(* the scores added up and not averaged *)
MeanScoreSummed(scores) == SumScores(scores)

(* np.mean(scores) *)
MeanScore(scores) == RatDiv(SumScores(scores), RatInt(Len(scores)))

(* lines 133-146: the price against the 20-day SMA *)
PriceVsSma(price, sma_20) ==
    LET both == IsNum(price) /\ IsNum(sma_20)
    IN  IF both /\ price[1] * 100 > sma_20[1] * 102
        THEN [score |-> Tenths(5), reason |-> "Price well above 20-day SMA"]
        ELSE IF both /\ price[1] > sma_20[1]
        THEN [score |-> Tenths(3), reason |-> "Price above 20-day SMA"]
        ELSE IF both /\ price[1] * 100 < sma_20[1] * 98
        THEN [score |-> Tenths(-5), reason |-> "Price well below 20-day SMA"]
        ELSE [score |-> Tenths(-3), reason |-> "Price below 20-day SMA"]

(* lines 149-164: golden cross and death cross of the 20-day and 50-day SMA *)
Cross(ma_data) ==
    LET cur == ma_data[Len(ma_data)]
        prev == ma_data[Len(ma_data) - 1]
        nums == /\ IsNum(cur["sma_20"]) /\ IsNum(cur["sma_50"])
                /\ IsNum(prev["sma_20"]) /\ IsNum(prev["sma_50"])
    IN  IF Len(ma_data) <= 1 THEN <<>>
        ELSE IF /\ nums
                /\ cur["sma_20"][1] > cur["sma_50"][1]
                /\ prev["sma_20"][1] <= prev["sma_50"][1]
        THEN <<[score |-> Tenths(8), reason |-> "Golden cross detected"]>>
        ELSE IF /\ nums
                /\ cur["sma_20"][1] < cur["sma_50"][1]
                /\ prev["sma_20"][1] >= prev["sma_50"][1]
        THEN <<[score |-> Tenths(-8), reason |-> "Death cross detected"]>>
        ELSE <<>>

(* ma_data is data[ma_cols]: here the frame itself, the columns read by name *)
CalculateMaScore(price, ma_data) ==
    LET columns == DOMAIN ma_data[1]
        short == IF "sma_20" \in columns
                 THEN <<PriceVsSma(price, ma_data[Len(ma_data)]["sma_20"])>>
                 ELSE <<>>
        cross == IF "sma_20" \in columns /\ "sma_50" \in columns THEN Cross(ma_data)
                 ELSE <<>>
        scores == short \o cross
    IN  IF scores = <<>>
        THEN [score |-> Zero, reason |-> <<"Insufficient MA data">>]
        ELSE [score |-> MeanScore(scores),
              reason |-> [i \in 1..Len(scores) |-> scores[i].reason]]

CalculateBbScore(price, bb_data) ==
    LET columns == DOMAIN bb_data[1]
        latest == bb_data[Len(bb_data)]
    IN  IF ~({"bb_upper", "bb_lower", "bb_middle"} \subseteq columns)
        THEN [score |-> Zero, reason |-> <<"Bollinger Bands data not available">>]
        ELSE IF /\ IsNum(latest["bb_upper"]) /\ IsNum(latest["bb_lower"])
                /\ latest["bb_upper"][1] - latest["bb_lower"][1] > 0
        THEN LET bb_range == latest["bb_upper"][1] - latest["bb_lower"][1]
                 above == IF IsNum(price) THEN price[1] - latest["bb_lower"][1] ELSE 0
             IN  IF IsNum(price) /\ above * 10 > 8 * bb_range
                 THEN [score |-> Tenths(-6), reason |-> <<"Price near upper Bollinger Band">>]
                 ELSE IF IsNum(price) /\ above * 10 < 2 * bb_range
                 THEN [score |-> Tenths(6), reason |-> <<"Price near lower Bollinger Band">>]
                 ELSE [score |-> Zero, reason |-> <<"Price in middle of Bollinger Bands">>]
        ELSE [score |-> Zero, reason |-> <<"Bollinger Bands too narrow">>]

CalculateVolumeScore(current_volume, avg_volume) ==
    IF IsNum(avg_volume) /\ avg_volume[1] = 0
    THEN [score |-> Zero, reason |-> <<"No volume data available">>]
    ELSE IF ~(IsNum(current_volume) /\ IsNum(avg_volume))
    THEN [score |-> Zero, reason |-> <<"Normal volume">>]
    ELSE LET volume_ratio == Rat(current_volume[1], avg_volume[1])
         IN  IF RatLt(RatInt(2), volume_ratio)
             THEN [score |-> Tenths(4), reason |-> <<"Very high volume">>]
             ELSE IF RatLt(Rat(3, 2), volume_ratio)
             THEN [score |-> Tenths(2), reason |-> <<"High volume">>]
             ELSE IF RatLt(volume_ratio, Rat(1, 2))
             THEN [score |-> Tenths(-2), reason |-> <<"Low volume">>]
             ELSE [score |-> Zero, reason |-> <<"Normal volume">>]

(* the columns whose name contains 'sma_' or 'ema_', and those with 'bb_' *)
MaColumnNames == {"sma_20", "sma_50", "ema_12", "ema_26"}
BbColumnNames == {"bb_upper", "bb_middle", "bb_lower"}

(* lines 250-285: an indicator is scored when its columns are in the frame *)
IndicatorScores(data) ==
    LET columns == DOMAIN data[1]
        latest == data[Len(data)]
        current_price == latest["close"]
        macd_data == [i \in 1..(IF Len(data) < 2 THEN Len(data) ELSE 2) |->
                         data[Len(data) - (IF Len(data) < 2 THEN Len(data) ELSE 2) + i]["macd"]]
        scored == [rsi |-> "rsi" \in columns,
                   macd |-> "macd" \in columns,
                   moving_averages |-> columns \cap MaColumnNames # {},
                   bollinger_bands |-> columns \cap BbColumnNames # {},
                   volume |-> "volume" \in columns /\ "volume_ma" \in columns]
    IN  [indicator \in {c \in DOMAIN scored : scored[c]} |->
            IF indicator = "rsi" THEN CalculateRsiScore(latest["rsi"])
            ELSE IF indicator = "macd" THEN CalculateMacdScore(macd_data)
            ELSE IF indicator = "moving_averages" THEN CalculateMaScore(current_price, data)
            ELSE IF indicator = "bollinger_bands" THEN CalculateBbScore(current_price, data)
            ELSE CalculateVolumeScore(latest["volume"], latest["volume_ma"])]

RECURSIVE WeightedSum(_, _, _)
WeightedSum(S, scores, weights) ==
    IF S = {} THEN [total_score |-> Zero, total_weight |-> Zero]
    ELSE LET indicator == CHOOSE c \in S : TRUE
             rest == WeightedSum(S \ {indicator}, scores, weights)
             weight == IF indicator \in DOMAIN weights THEN weights[indicator] ELSE Zero
         IN  [total_score |-> RatAdd(rest.total_score,
                                     RatMul(scores[indicator].score, weight)),
              total_weight |-> RatAdd(rest.total_weight, weight)]

(* the scores added up: every weight taken as 1 and nothing divided *)
FinalScoreUnnormalised(scores, weights) ==
    LET sum == WeightedSum(DOMAIN scores, [c \in DOMAIN scores |-> [score |-> scores[c].score]],
                           [c \in DOMAIN weights |-> RatInt(1)])
    IN  sum.total_score

(* lines 287-300 *)
FinalScore(scores, weights) ==
    LET sum == WeightedSum(DOMAIN scores, scores, weights)
    IN  IF RatPos(sum.total_weight) THEN RatDiv(sum.total_score, sum.total_weight)
        ELSE Zero

(* a score on the threshold counted as a signal *)
ActionOfInclusive(final_score) ==
    IF ~RatLt(final_score, Percent(15)) THEN "BUY"
    ELSE IF ~RatLt(Percent(-15), final_score) THEN "SELL"
    ELSE "HOLD"

(* lines 303-311: the thresholds *)
ActionOf(final_score) ==
    IF RatLt(Percent(15), final_score) THEN "BUY"
    ELSE IF RatLt(final_score, Percent(-15)) THEN "SELL"
    ELSE "HOLD"

(* rounded to the nearest integer, halves upwards *)
TruncRounded(x) == (2 * x[1] + x[2]) \div (2 * x[2])

(* int(x) for x >= 0: the fraction is dropped *)
Trunc(x) == x[1] \div x[2]

ConfidenceOf(final_score) ==
    LET magnitude == RatAbs(final_score)
        signal == Trunc(RatAdd(RatInt(20), RatMul(magnitude, RatInt(150))))
        hold == Trunc(RatSub(RatInt(80), RatMul(magnitude, RatInt(100))))
    IN  IF ActionOf(final_score) = "HOLD"
        THEN (IF hold > 50 THEN hold ELSE 50)
        ELSE (IF signal < 95 THEN signal ELSE 95)

(* _calculate_position_size: a beta of None makes the comparison raise *)
CalculatePositionSize(engine, confidence, stock_info) ==
    LET base_size == IF engine.risk_tolerance = "conservative" THEN 5
                     ELSE IF engine.risk_tolerance = "aggressive" THEN 15
                     ELSE 10
        max_size == IF engine.risk_tolerance = "conservative" THEN 10
                    ELSE IF engine.risk_tolerance = "aggressive" THEN 25
                    ELSE 20
        has_beta == "beta" \in DOMAIN stock_info
        volatility_adjustment ==
            IF has_beta /\ stock_info["beta"] # None
            THEN (IF stock_info["beta"][1] > 15 THEN Tenths(7)
                  ELSE IF stock_info["beta"][1] < 7 THEN Tenths(12)
                  ELSE RatInt(1))
            ELSE RatInt(1)
        position_size == RatMul(RatMul(RatInt(base_size), Percent(confidence)),
                                volatility_adjustment)
    IN  IF has_beta /\ stock_info["beta"] = None
        THEN [error |-> "TypeError", value |-> Zero]
        ELSE [error |-> "none", value |-> RatMin(position_size, RatInt(max_size))]

(* lines 240-336: the body of the try block, returning a dict or raising *)
Scoring(engine, data, stock_info, now) ==
    IF data = <<>>
    THEN [error |-> "none",
          value |-> [action |-> "HOLD", confidence |-> 0,
                     reasoning |-> <<"No data available">>]]
    ELSE IF "close" \notin DOMAIN data[1]
    THEN [error |-> "KeyError", value |-> EmptyMap]
    ELSE LET scores == IndicatorScores(data)
             final_score == FinalScore(scores, engine.score_weights)
             action == ActionOf(final_score)
             confidence == ConfidenceOf(final_score)
             position_size == CalculatePositionSize(engine, confidence, stock_info)
         IN  IF position_size.error # "none"
             THEN [error |-> position_size.error, value |-> EmptyMap]
             ELSE [error |-> "none",
                   value |-> [action |-> action,
                              confidence |-> confidence,
                              score |-> final_score,
                              current_price |-> data[Len(data)]["close"],
                              position_size_pct |-> position_size.value,
                              reasoning |-> <<"Overall score", final_score, action,
                                              confidence>>,
                              detailed_reasoning |->
                                  [c \in DOMAIN scores |->
                                      [weight |-> engine.score_weights[c],
                                       reason |-> scores[c].reason]],
                              individual_scores |->
                                  [c \in DOMAIN scores |-> scores[c].score],
                              risk_tolerance |-> engine.risk_tolerance,
                              timestamp |-> now]]

(* no handler: the exception reaches the caller *)
ExceptNothing(body, now) == body

(* lines 338-345: except Exception *)
ExceptException(body, now) ==
    IF body.error # "none"
    THEN [error |-> "none",
          value |-> [action |-> "HOLD", confidence |-> 0,
                     reasoning |-> <<"Error in analysis", body.error>>,
                     timestamp |-> now]]
    ELSE body

(* the time of the call written into the reasoning as well *)
GenerateRecommendationTimedReason(engine, data, stock_info, now) ==
    LET out == ExceptException(Scoring(engine, data, stock_info, now), now)
    IN  [out EXCEPT !.value.reasoning = Append(@, now)]

GenerateRecommendation(engine, data, stock_info, now) ==
    ExceptException(Scoring(engine, data, stock_info, now), now)

(* the oldest call not yet made runs on its engine and returns or raises *)
Generate ==
    \E i \in 1..Len(calls) :
        LET call == calls[i]
            out == GenerateRecommendation(engines[call.engine], call.data,
                                          call.stock_info, clock)
        IN  /\ call.state = "pending"
            /\ \A j \in 1..(i - 1) : calls[j].state # "pending"
            /\ calls' = [calls EXCEPT ![i] =
                            [call EXCEPT !.state = IF out.error = "none" THEN "returned"
                                                   ELSE "raised",
                                         !.error = out.error,
                                         !.result = out.value]]
            /\ last' = [op |-> "generate_recommendation", ok |-> (out.error = "none"),
                        error |-> out.error]
            /\ UNCHANGED <<positions, transactions, recommendations, snapshots,
                           cache, cache_expiry, clock, engines>>

(***************************************************************************)
(* The frames given to the engine: two bars with a close of 100, and for   *)
(* each indicator either no column or one of a few readings.               *)
(***************************************************************************)
NoColumns == <<EmptyMap, EmptyMap>>
Steady(row) == <<row, row>>
JoinBars(a, b) == [i \in 1..2 |-> Join(a[i], b[i])]

CloseBars == Steady([close |-> Num(100)])

RsiBars ==
    {NoColumns} \cup
    {<<[rsi |-> Num(50)], [rsi |-> v]>> : v \in {NaN, Num(25), Num(50), Num(75)}}

MacdBars ==
    {NoColumns} \cup
    {<<[macd |-> Num(m[1])], [macd |-> Num(m[2])]>> : m \in {<<-1, 1>>, <<1, 1>>, <<-1, -1>>}}

MaBars ==
    {NoColumns,
     <<[sma_20 |-> Num(95), sma_50 |-> Num(96)], [sma_20 |-> Num(98), sma_50 |-> Num(97)]>>}
    \cup {<<[sma_20 |-> Num(99)], [sma_20 |-> v]>> : v \in {NaN, Num(90), Num(99), Num(110)}}

BbBars ==
    {NoColumns} \cup
    {Steady([bb_upper |-> Num(b + 10), bb_middle |-> Num(b), bb_lower |-> Num(b - 10)]) :
        b \in {91, 100, 109}}

VolumeBars ==
    {NoColumns} \cup
    {Steady([volume |-> Num(v), volume_ma |-> Num(100)]) : v \in {40, 100, 300}}

IndicatorFrames ==
    {JoinBars(CloseBars, JoinBars(r, JoinBars(m, JoinBars(a, JoinBars(b, v))))) :
        r \in RsiBars, m \in MacdBars, a \in MaBars, b \in BbBars, v \in VolumeBars}

(* one bar only, no price column, no bar at all *)
ShortFrames ==
    {<<JoinBars(CloseBars, JoinBars(m, a))[2]>> : m \in MacdBars, a \in MaBars}
    \cup {Steady([rsi |-> Num(25)]), <<>>}

Frames == IndicatorFrames \cup ShortFrames

RiskTolerances == {"conservative", "moderate", "aggressive", "balanced"}
StockInfos == {EmptyMap, [beta |-> Some(20)], [beta |-> None]}

Pending(engine, data, stock_info) ==
    [engine |-> engine, data |-> data, stock_info |-> stock_info,
     state |-> "pending", error |-> "none", result |-> EmptyMap]

(***************************************************************************)
(* One engine of any profile and one call on it.                           *)
(***************************************************************************)
InitEngine ==
    /\ positions = EmptyMap
    /\ transactions = <<>>
    /\ recommendations = EmptyMap
    /\ snapshots = <<>>
    /\ cache = EmptyMap
    /\ cache_expiry = 0
    /\ clock = 0
    /\ last = [op |-> "init", ok |-> TRUE, error |-> "none"]
    /\ engines \in {[id \in {1} |-> RecommendationEngine(risk_tolerance)] :
                       risk_tolerance \in RiskTolerances}
    /\ calls \in {<<Pending(1, data, stock_info)>> : data \in Frames, stock_info \in StockInfos}

NextEngine == Generate

SpecEngine == InitEngine /\ [][NextEngine]_vars

(***************************************************************************)
(* Two engines and two calls, made at the same second or a second apart,   *)
(* on the same engine or one on each.                                      *)
(***************************************************************************)
RepeatFrames ==
    {<<>>,
     Steady([rsi |-> Num(25)]),
     Steady([close |-> Num(100), rsi |-> Num(25)])}
RepeatTolerances == {"moderate", "aggressive"}
RepeatStockInfos == {EmptyMap, [beta |-> Some(20)]}

InitRepeat ==
    /\ positions = EmptyMap
    /\ transactions = <<>>
    /\ recommendations = EmptyMap
    /\ snapshots = <<>>
    /\ cache = EmptyMap
    /\ cache_expiry = 0
    /\ clock = 0
    /\ last = [op |-> "init", ok |-> TRUE, error |-> "none"]
    /\ engines \in {[id \in {1, 2} |-> RecommendationEngine(r[id])] :
                       r \in [{1, 2} -> RepeatTolerances]}
    /\ calls \in {<<Pending(e[1], d[1], s[1]), Pending(e[2], d[2], s[2])>> :
                     e \in [{1, 2} -> {1, 2}], d \in [{1, 2} -> RepeatFrames],
                     s \in [{1, 2} -> RepeatStockInfos]}

NextRepeat == Generate \/ Second

SpecRepeat == InitRepeat /\ [][NextRepeat]_vars

(***************************************************************************)
(* The technical analyzer.  A frame is described by its columns and the    *)
(* type of each: "float64" for a column of numbers, "object" for a column  *)
(* of strings.  An indicator reads its columns from the frame it is given; *)
(* a column that is absent raises KeyError and a column of strings raises  *)
(* TypeError in the arithmetic.  The values of the indicators are not      *)
(* modelled here, only which columns a frame has.                          *)
(***************************************************************************)
ColumnError(data, column) ==
    IF column \notin DOMAIN data THEN "KeyError"
    ELSE IF data[column] # "float64" THEN "TypeError"
    ELSE "none"

CalculateRsi(data) ==
    [error |-> ColumnError(data, "close"), columns |-> {"rsi"}]

CalculateMacd(data) ==
    [error |-> ColumnError(data, "close"),
     columns |-> {"macd", "signal", "histogram"}]

CalculateMovingAverages(data) ==
    [error |-> ColumnError(data, "close"),
     columns |-> {"sma_20", "ema_20", "sma_50", "ema_50", "sma_200", "ema_200"}]

CalculateBollingerBands(data) ==
    [error |-> ColumnError(data, "close"),
     columns |-> {"bb_upper", "bb_middle", "bb_lower"}]

CalculateStochastic(data) ==
    [error |-> IF ColumnError(data, "high") # "none" THEN ColumnError(data, "high")
               ELSE IF ColumnError(data, "low") # "none" THEN ColumnError(data, "low")
               ELSE ColumnError(data, "close"),
     columns |-> {"stoch_k", "stoch_d"}]

(* result[...] = series and pd.concat([result, frame], axis=1) *)
Concat(result, columns) ==
    [c \in (DOMAIN result) \cup columns |->
        IF c \in columns THEN "float64" ELSE result[c]]

(* the stochastic oscillator is computed only on a frame with high, low and close *)
StochasticWanted(data) == {"high", "low", "close"} \subseteq DOMAIN data

(* one try block around all five computations: the first exception returns  *)
(* the frame as it was given                                                *)
CalculateAllIndicators(data) ==
    LET rsi == CalculateRsi(data)
        macd == CalculateMacd(data)
        ma == CalculateMovingAverages(data)
        bb == CalculateBollingerBands(data)
        stoch == CalculateStochastic(data)
        r1 == Concat(data, rsi.columns)
        r2 == Concat(r1, macd.columns)
        r3 == Concat(r2, ma.columns)
        r4 == Concat(r3, bb.columns)
        r5 == IF StochasticWanted(data) THEN Concat(r4, stoch.columns) ELSE r4
    IN  IF rsi.error # "none" THEN data
        ELSE IF macd.error # "none" THEN data
        ELSE IF ma.error # "none" THEN data
        ELSE IF bb.error # "none" THEN data
        ELSE IF StochasticWanted(data) /\ stoch.error # "none" THEN data
        ELSE r5

(* the oldest call not yet made runs; calculate_all_indicators always returns *)
Indicators ==
    \E i \in 1..Len(calls) :
        LET call == calls[i]
        IN  /\ call.state = "pending"
            /\ \A j \in 1..(i - 1) : calls[j].state # "pending"
            /\ calls' = [calls EXCEPT ![i] =
                            [call EXCEPT !.state = "returned",
                                         !.result = CalculateAllIndicators(call.data)]]
            /\ last' = [op |-> "calculate_all_indicators", ok |-> TRUE,
                        error |-> "none"]
            /\ UNCHANGED <<positions, transactions, recommendations, snapshots,
                           cache, cache_expiry, clock, engines>>

(***************************************************************************)
(* The frames given to the analyzer: each of the five price columns is     *)
(* absent, numeric or a column of strings.                                 *)
(***************************************************************************)
RawColumns == {"open", "high", "low", "close", "volume"}
Dtypes == {"float64", "object"}
RawFrames ==
    UNION {[columns -> Dtypes] : columns \in SUBSET RawColumns}

PendingIndicators(data) ==
    [op |-> "calculate_all_indicators", data |-> data, state |-> "pending",
     result |-> EmptyMap]

InitIndicators ==
    /\ positions = EmptyMap
    /\ transactions = <<>>
    /\ recommendations = EmptyMap
    /\ snapshots = <<>>
    /\ cache = EmptyMap
    /\ cache_expiry = 0
    /\ clock = 0
    /\ last = [op |-> "init", ok |-> TRUE, error |-> "none"]
    /\ engines = EmptyMap
    /\ \E data \in RawFrames : calls = <<PendingIndicators(data)>>

NextIndicators == Indicators

SpecIndicators == InitIndicators /\ [][NextIndicators]_vars

(***************************************************************************)
(* calculate_rsi_score called on its own, on every whole reading of the    *)
(* index from 0 to 100 and on an undefined reading.                        *)
(***************************************************************************)
RsiScore ==
    \E i \in 1..Len(calls) :
        LET call == calls[i]
        IN  /\ call.state = "pending"
            /\ \A j \in 1..(i - 1) : calls[j].state # "pending"
            /\ calls' = [calls EXCEPT ![i] =
                            [call EXCEPT !.state = "returned",
                                         !.result = CalculateRsiScore(call.rsi_value)]]
            /\ last' = [op |-> "calculate_rsi_score", ok |-> TRUE, error |-> "none"]
            /\ UNCHANGED <<positions, transactions, recommendations, snapshots,
                           cache, cache_expiry, clock, engines>>

RsiValues == {NaN} \cup {Num(v) : v \in 0..100}

PendingRsi(rsi_value) ==
    [op |-> "calculate_rsi_score", rsi_value |-> rsi_value, state |-> "pending",
     result |-> EmptyMap]

InitRsi ==
    /\ positions = EmptyMap
    /\ transactions = <<>>
    /\ recommendations = EmptyMap
    /\ snapshots = <<>>
    /\ cache = EmptyMap
    /\ cache_expiry = 0
    /\ clock = 0
    /\ last = [op |-> "init", ok |-> TRUE, error |-> "none"]
    /\ engines \in {[id \in {1} |-> RecommendationEngine(risk_tolerance)] :
                       risk_tolerance \in RiskTolerances}
    /\ \E rsi_value \in RsiValues : calls = <<PendingRsi(rsi_value)>>

NextRsi == RsiScore

SpecRsi == InitRsi /\ [][NextRsi]_vars

(***************************************************************************)
(* calculate_ma_score called on its own: a price around an SMA of 100 and  *)
(* a frame of one or two bars with the 20-day SMA, the 50-day SMA, both or *)
(* neither.                                                                *)
(***************************************************************************)
MaScore ==
    \E i \in 1..Len(calls) :
        LET call == calls[i]
        IN  /\ call.state = "pending"
            /\ \A j \in 1..(i - 1) : calls[j].state # "pending"
            /\ calls' = [calls EXCEPT ![i] =
                            [call EXCEPT !.state = "returned",
                                         !.result = CalculateMaScore(call.price,
                                                                     call.ma_data)]]
            /\ last' = [op |-> "calculate_ma_score", ok |-> TRUE, error |-> "none"]
            /\ UNCHANGED <<positions, transactions, recommendations, snapshots,
                           cache, cache_expiry, clock, engines>>

MaPrices == {Num(p) : p \in {94, 97, 98, 99, 100, 101, 102, 103, 110}}

LongSmas == {Num(99), Num(100), Num(101)}

MaFrames ==
    {NoColumns, <<EmptyMap>>}
    \cup {<<[sma_20 |-> v]>> : v \in {NaN, Num(100)}}
    \cup {<<[sma_50 |-> Num(100)]>>}
    \cup {<<[sma_20 |-> Num(100), sma_50 |-> w]>> : w \in LongSmas}
    \cup {Steady([sma_20 |-> v]) : v \in {NaN, Num(100)}}
    \cup {Steady([sma_50 |-> Num(100)])}
    \cup {<<[sma_20 |-> Num(100), sma_50 |-> w[1]], [sma_20 |-> Num(100), sma_50 |-> w[2]]>> :
             w \in (LongSmas \cup {NaN}) \X (LongSmas \cup {NaN})}

PendingMa(price, ma_data) ==
    [op |-> "calculate_ma_score", price |-> price, ma_data |-> ma_data,
     state |-> "pending", result |-> EmptyMap]

InitMa ==
    /\ positions = EmptyMap
    /\ transactions = <<>>
    /\ recommendations = EmptyMap
    /\ snapshots = <<>>
    /\ cache = EmptyMap
    /\ cache_expiry = 0
    /\ clock = 0
    /\ last = [op |-> "init", ok |-> TRUE, error |-> "none"]
    /\ engines = [id \in {1} |-> RecommendationEngine("moderate")]
    /\ \E price \in MaPrices, ma_data \in MaFrames : calls = <<PendingMa(price, ma_data)>>

NextMa == MaScore

SpecMa == InitMa /\ [][NextMa]_vars

(***************************************************************************)
(* The holdings analyzer.  holdings_analysis is a dict: here the sequence  *)
(* of its items in insertion order, each a pair <<symbol, analysis>>.      *)
(***************************************************************************)
SignalInfo(item) ==
    [symbol |-> item[1], confidence |-> item[2].confidence,
     pnl_pct |-> item[2].holding_details.unrealized_pnl_pct]

RECURSIVE TotalConfidence(_)
TotalConfidence(items) ==
    IF items = <<>> THEN 0
    ELSE Head(items)[2].confidence + TotalConfidence(Tail(items))

(* the last signal of the list, whatever its confidence *)
StrongestSignalLast(signals) ==
    IF signals = <<>> THEN None ELSE Some(signals[Len(signals)])

(* max(signals, key=confidence) if signals else None: the first of the     *)
(* signals with the greatest confidence                                    *)
StrongestSignal(signals) ==
    IF signals = <<>> THEN None
    ELSE LET best == CHOOSE i \in 1..Len(signals) :
                        /\ \A j \in 1..Len(signals) :
                              signals[j].confidence <= signals[i].confidence
                        /\ \A j \in 1..(i - 1) :
                              signals[j].confidence < signals[i].confidence
         IN  Some(signals[best])

GenerateHoldingsSummary(holdings_analysis) ==
    LET Succeeded(item) == item[2].success
        Failed(item) == ~item[2].success
        IsBuy(item) == item[2].action = "BUY"
        IsSell(item) == item[2].action = "SELL"
        IsHold(item) == item[2].action \notin {"BUY", "SELL"}
        successes == SelectSeq(holdings_analysis, Succeeded)
        failures == SelectSeq(holdings_analysis, Failed)
        buy_signals == [i \in 1..Len(SelectSeq(successes, IsBuy)) |->
                           SignalInfo(SelectSeq(successes, IsBuy)[i])]
        sell_signals == [i \in 1..Len(SelectSeq(successes, IsSell)) |->
                            SignalInfo(SelectSeq(successes, IsSell)[i])]
        hold_signals == SelectSeq(successes, IsHold)
        errors == [i \in 1..Len(failures) |->
                      [symbol |-> failures[i][1], error |-> failures[i][2].error]]
        successful_analyses == Len(successes)
    IN  [total_holdings |-> Len(holdings_analysis),
         successful_analyses |-> successful_analyses,
         buy_signals |-> Len(buy_signals),
         sell_signals |-> Len(sell_signals),
         hold_signals |-> Len(hold_signals),
         errors |-> Len(errors),
         avg_confidence |-> IF successful_analyses > 0
                            THEN Rat(TotalConfidence(successes), successful_analyses)
                            ELSE Zero,
         strongest_buy |-> StrongestSignal(buy_signals),
         strongest_sell |-> StrongestSignal(sell_signals),
         error_details |-> errors]

(* the oldest call not yet made runs *)
Summarise ==
    \E i \in 1..Len(calls) :
        LET call == calls[i]
        IN  /\ call.state = "pending"
            /\ \A j \in 1..(i - 1) : calls[j].state # "pending"
            /\ calls' = [calls EXCEPT ![i] =
                            [call EXCEPT !.state = "returned",
                                         !.result = GenerateHoldingsSummary(
                                                        call.holdings_analysis)]]
            /\ last' = [op |-> "_generate_holdings_summary", ok |-> TRUE,
                        error |-> "none"]
            /\ UNCHANGED <<positions, transactions, recommendations, snapshots,
                           cache, cache_expiry, clock, engines>>

(***************************************************************************)
(* The maps given to the summary: up to three holdings, each a failure or  *)
(* a recommendation with one of a few confidences.                         *)
(***************************************************************************)
HeldSymbols == <<"AAPL", "MSFT", "GOOG">>

HoldingFailures ==
    {[success |-> FALSE, error |-> <<"No market data available">>]}

HoldingSuccesses ==
    {[success |-> TRUE, action |-> s[1], confidence |-> s[2],
      holding_details |-> [unrealized_pnl_pct |-> Zero]] :
        s \in {<<"BUY", 70>>, <<"BUY", 80>>, <<"SELL", 70>>, <<"SELL", 90>>,
               <<"HOLD", 50>>, <<"HOLD", 0>>}}

HoldingsMaps ==
    UNION {{[i \in 1..n |-> <<HeldSymbols[i], entries[i]>>] :
               entries \in [1..n -> HoldingFailures \cup HoldingSuccesses]} :
           n \in 0..Len(HeldSymbols)}

PendingSummary(holdings_analysis) ==
    [op |-> "_generate_holdings_summary", holdings_analysis |-> holdings_analysis,
     state |-> "pending", result |-> EmptyMap]

InitSummary ==
    /\ positions = EmptyMap
    /\ transactions = <<>>
    /\ recommendations = EmptyMap
    /\ snapshots = <<>>
    /\ cache = EmptyMap
    /\ cache_expiry = 0
    /\ clock = 0
    /\ last = [op |-> "init", ok |-> TRUE, error |-> "none"]
    /\ engines = EmptyMap
    /\ \E holdings_analysis \in HoldingsMaps :
          calls = <<PendingSummary(holdings_analysis)>>

NextSummary == Summarise

SpecSummary == InitSummary /\ [][NextSummary]_vars

(***************************************************************************)
(* The market seen by the holdings analyzer.  get_stock_data answers with  *)
(* a feed: the raw frame, described by its columns and their types, and    *)
(* the readings the indicators have on it; the empty feed is the empty     *)
(* frame returned when nothing could be fetched.  ticker.info is either    *)
(* too short to use or a dict that may hold a beta, in tenths.             *)
(***************************************************************************)
EmptyFeed == [dtypes |-> EmptyMap, readings |-> <<>>]

(* the bars of the raw frame: a value for every numeric column *)
RawBars(feed) ==
    IF feed = EmptyFeed THEN <<>>
    ELSE Steady([c \in {d \in DOMAIN feed.dtypes : feed.dtypes[d] = "float64"} |->
                    Num(100)])

(* calculate_all_indicators on the feed: the raw bars and, for the columns *)
(* that were computed, the readings                                        *)
AnalysisOf(feed) ==
    LET raw == RawBars(feed)
        computed == (DOMAIN CalculateAllIndicators(feed.dtypes)) \ (DOMAIN feed.dtypes)
    IN  [i \in 1..Len(raw) |->
            [c \in (DOMAIN raw[i]) \cup (computed \cap DOMAIN feed.readings[i]) |->
                IF c \in DOMAIN raw[i] THEN raw[i][c] ELSE feed.readings[i][c]]]

(* get_stock_info: the beta is info.get('beta', 0); a short info or an     *)
(* exception gives a dict with no beta                                     *)
GetStockInfo(info) ==
    IF info.limited
    THEN [error |-> <<"Limited information available">>]
    ELSE [beta |-> IF "beta" \in DOMAIN info.fields THEN info.fields["beta"]
                   ELSE Some(0)]

(* _generate_position_advice: the text and the number of shares it names *)
GeneratePositionAdvice(action, confidence, current_pnl_pct, current_quantity) ==
    LET Share(pct, least) ==
            IF (current_quantity * pct) \div 100 > least
            THEN (current_quantity * pct) \div 100 ELSE least
    IN  IF action = "BUY"
        THEN (IF confidence > 75
              THEN [text |-> "Strong BUY signal", shares |-> Share(25, 10)]
              ELSE IF confidence > 60
              THEN [text |-> "Moderate BUY signal", shares |-> Share(15, 5)]
              ELSE [text |-> "Weak BUY signal", shares |-> 0])
        ELSE IF action = "SELL"
        THEN (IF confidence > 75
              THEN (IF RatLt(RatInt(10), current_pnl_pct)
                    THEN [text |-> "Strong SELL signal - take profits", shares |-> 0]
                    ELSE [text |-> "Strong SELL signal - limit losses", shares |-> 0])
              ELSE IF confidence > 60
              THEN [text |-> "Moderate SELL signal", shares |-> Share(30, 10)]
              ELSE [text |-> "Weak SELL signal", shares |-> 0])
        ELSE (IF RatLt(RatInt(20), current_pnl_pct)
              THEN [text |-> "HOLD - strong position", shares |-> 0]
              ELSE IF RatLt(current_pnl_pct, RatInt(-15))
              THEN [text |-> "HOLD - position underwater", shares |-> 0]
              ELSE [text |-> "HOLD - maintain current position", shares |-> 0])

GetBollingerPosition(analysis) ==
    LET latest == analysis[Len(analysis)]
        price == latest["close"]
    IN  IF /\ IsNum(price) /\ IsNum(latest["bb_upper"])
           /\ price[1] > latest["bb_upper"][1]
        THEN "overbought"
        ELSE IF /\ IsNum(price) /\ IsNum(latest["bb_lower"])
                /\ price[1] < latest["bb_lower"][1]
        THEN "oversold"
        ELSE "normal"

HoldingFailure(symbol, error) ==
    [success |-> FALSE, error |-> <<error>>, symbol |-> symbol]

(* the columns read for technical_summary *)
SummaryColumns == {"rsi", "sma_20", "sma_50", "macd", "close", "bb_upper", "bb_lower"}

(* analyze_single_holding: every exception ends in a failure entry *)
AnalyzeSingleHolding(symbol, position, risk_tolerance, feed, info, now) ==
    LET data == RawBars(feed)
        stock_info == GetStockInfo(info)
        analysis == AnalysisOf(feed)
        engine == RecommendationEngine(risk_tolerance)
        recommendation == GenerateRecommendation(engine, analysis, stock_info, now)
        latest == analysis[Len(analysis)]
    IN  IF data = <<>>
        THEN HoldingFailure(symbol, "No market data available")
        ELSE IF recommendation.error # "none"
        THEN HoldingFailure(symbol, recommendation.error)
        ELSE IF ~(SummaryColumns \subseteq DOMAIN latest)
        THEN HoldingFailure(symbol, "KeyError")
        ELSE Join([success |-> TRUE,
                   symbol |-> symbol,
                   current_price |-> position.current_price,
                   holding_details |->
                       [quantity |-> position.quantity,
                        avg_cost |-> position.avg_cost,
                        market_value |-> position.market_value,
                        unrealized_pnl |-> position.unrealized_pnl,
                        unrealized_pnl_pct |-> position.unrealized_pnl_pct],
                   position_advice |->
                       GeneratePositionAdvice(recommendation.value.action,
                                              recommendation.value.confidence,
                                              position.unrealized_pnl_pct,
                                              position.quantity),
                   technical_summary |->
                       [rsi |-> latest["rsi"], sma_20 |-> latest["sma_20"],
                        sma_50 |-> latest["sma_50"], macd |-> latest["macd"],
                        bb_position |-> GetBollingerPosition(analysis),
                        trend |-> IF /\ IsNum(latest["close"]) /\ IsNum(latest["sma_20"])
                                     /\ latest["close"][1] > latest["sma_20"][1]
                                  THEN "bullish" ELSE "bearish"],
                   analysis_timestamp |-> now],
                  recommendation.value)

(* analyze_all_holdings.  get_positions is called outside every try: when  *)
(* it raises, the call raises.  order is the order of the list returned by *)
(* get_positions, market the feed and the info of every symbol looked up.  *)
AnalyzeAllHoldings(current_prices, risk_tolerance, market, order) ==
    LET g == GetPositionsCall(Tracker, current_prices)
        holdings_analysis ==
            [i \in 1..Len(order) |->
                <<order[i],
                  AnalyzeSingleHolding(order[i], g.result[order[i]], risk_tolerance,
                                       market[order[i]].feed, market[order[i]].info,
                                       clock)>>]
        result ==
            IF g.result = EmptyMap
            THEN [holdings_analysis |-> <<>>,
                  summary |-> [total_holdings |-> 0,
                               message |-> "No positions to analyze"]]
            ELSE [holdings_analysis |-> holdings_analysis,
                  summary |-> GenerateHoldingsSummary(holdings_analysis),
                  analysis_timestamp |-> clock]
    IN  /\ IF g.error = "none"
           THEN /\ DOMAIN market = DOMAIN g.result
                /\ Len(order) = Cardinality(DOMAIN g.result)
                /\ {order[i] : i \in 1..Len(order)} = DOMAIN g.result
           ELSE market = EmptyMap /\ order = <<>>
        /\ cache' = g.c.cache
        /\ cache_expiry' = g.c.cache_expiry
        /\ last' = [op |-> "analyze_all_holdings", prices |-> current_prices,
                    risk_tolerance |-> risk_tolerance, market |-> market,
                    ok |-> (g.error = "none"), error |-> g.error,
                    result |-> IF g.error = "none" THEN result ELSE EmptyMap]
        /\ UNCHANGED <<positions, transactions, recommendations, snapshots, clock,
                       engines, calls>>

(***************************************************************************)
(* The holdings analyzer on a tracker: trades and analyses.                *)
(***************************************************************************)
Readings ==
    Steady([rsi |-> Num(50), macd |-> Num(1), signal |-> Num(1), histogram |-> Num(0),
            sma_20 |-> Num(99), ema_20 |-> Num(99), sma_50 |-> Num(98),
            ema_50 |-> Num(98), sma_200 |-> NaN, ema_200 |-> Num(97),
            bb_upper |-> Num(110), bb_middle |-> Num(100), bb_lower |-> Num(90),
            stoch_k |-> Num(50), stoch_d |-> Num(50)])

GoodFeed == [dtypes |-> [c \in RawColumns |-> "float64"], readings |-> Readings]

(* the low column came back as text *)
BrokenFeed ==
    [dtypes |-> [c \in RawColumns |-> IF c = "low" THEN "object" ELSE "float64"],
     readings |-> Readings]

LimitedInfo == [limited |-> TRUE, fields |-> EmptyMap]
InfoWith(fields) == [limited |-> FALSE, fields |-> fields]

(* what the market answers for one symbol *)
MarketStates ==
    {[feed |-> EmptyFeed, info |-> LimitedInfo],
     [feed |-> GoodFeed, info |-> InfoWith(EmptyMap)],
     [feed |-> GoodFeed, info |-> InfoWith([beta |-> Some(20)])],
     [feed |-> GoodFeed, info |-> InfoWith([beta |-> None])],
     [feed |-> BrokenFeed, info |-> InfoWith([beta |-> Some(10)])]}

Markets(S) == [S -> MarketStates]

Orders(S) == {order \in UNION {[1..n -> S] : n \in 0..Cardinality(S)} :
                 /\ Len(order) = Cardinality(S)
                 /\ {order[i] : i \in 1..Len(order)} = S}

HoldingsTolerances == {"moderate"}
HoldingsPrices == {EmptyMap, [symbol \in Symbols |-> 160]}

Acquire ==
    \E symbol \in Symbols, quantity \in Quantities, price \in Prices,
       commission \in Commissions :
         ExecuteTransaction(symbol, "BUY", quantity, price, commission, NoRec)

Analyze ==
    \E current_prices \in HoldingsPrices, risk_tolerance \in HoldingsTolerances,
       held \in SUBSET Symbols :
        \E market \in Markets(held), order \in Orders(held) :
            AnalyzeAllHoldings(current_prices, risk_tolerance, market, order)

NextHoldings == Acquire \/ Analyze

SpecHoldings == Init /\ [][NextHoldings]_vars

(***************************************************************************)
(* _calculate_weekly_return.  Timestamps are whole seconds; the ISO texts  *)
(* that the store compares are ordered as the instants they stand for.     *)
(***************************************************************************)
(* timedelta(days=7), in seconds *)
Week == 604800

(* every stored snapshot, whatever its age *)
WeekAgoSnapshotsAll(snaps, now) == 1..Len(snaps)

(* WHERE timestamp <= week_ago *)
WeekAgoSnapshots(snaps, now) ==
    {i \in 1..Len(snaps) : snaps[i].timestamp <= now - Week}

(* ORDER BY timestamp DESC LIMIT 1; a week_ago_value of zero raises and    *)
(* the bare except returns 0.0                                             *)
CalculateWeeklyReturn(snaps, current_value, now) ==
    LET rows == WeekAgoSnapshots(snaps, now)
    IN  IF rows = {} THEN Zero
        ELSE LET first == CHOOSE i \in rows :
                              \A j \in rows : snaps[j].timestamp <= snaps[i].timestamp
                 week_ago_value == snaps[first].total_value
             IN  IF RatIsZero(week_ago_value) THEN Zero
                 ELSE RatMul(RatDiv(RatSub(current_value, week_ago_value),
                                    week_ago_value),
                             Hundred)

WeeklyReturnCall(current_value) ==
    /\ last' = [op |-> "_calculate_weekly_return", current_value |-> current_value,
                ok |-> TRUE, error |-> "none",
                result |-> CalculateWeeklyReturn(snapshots, RatInt(current_value), clock)]
    /\ UNCHANGED <<positions, transactions, recommendations, snapshots, cache,
                   cache_expiry, clock, engines, calls>>

(***************************************************************************)
(* The snapshot logs the weekly return is asked on: snapshots of a         *)
(* portfolio held in cash, saved at some of a few instants around the      *)
(* boundary, one week before now.                                          *)
(***************************************************************************)
RECURSIVE SnapshotLog(_)
SnapshotLog(saves) ==
    IF saves = <<>> THEN <<>>
    ELSE LET earlier == SnapshotLog(SubSeq(saves, 1, Len(saves) - 1))
             save == saves[Len(saves)]
         IN  Append(earlier,
                    [snapshot_id |-> <<"snapshot", save.at>>,
                     timestamp |-> save.at,
                     total_value |-> RatInt(save.cash_balance),
                     cash_balance |-> save.cash_balance,
                     positions_value |-> Zero,
                     total_pnl |-> Zero,
                     daily_return |-> CalculateDailyReturn(earlier,
                                                           RatInt(save.cash_balance))])

SaveInstants == 0..3
SavedCash == {0, 100, 200}
WeeklyClocks == {Week + 1, Week + 2}
WeeklyValues == {150, 200}

(* the saves of a log: instants in increasing order, each with its cash *)
SaveLists ==
    {saves \in UNION {[1..n -> [at : SaveInstants, cash_balance : SavedCash]] :
                         n \in 0..Cardinality(SaveInstants)} :
        \A i \in 1..(Len(saves) - 1) : saves[i].at < saves[i + 1].at}

InitWeekly ==
    /\ positions = EmptyMap
    /\ transactions = <<>>
    /\ recommendations = EmptyMap
    /\ snapshots \in {SnapshotLog(saves) : saves \in SaveLists}
    /\ cache = EmptyMap
    /\ cache_expiry = 0
    /\ clock \in WeeklyClocks
    /\ last = [op |-> "init", ok |-> TRUE, error |-> "none"]
    /\ engines = EmptyMap
    /\ calls = <<>>

WeeklyReturn == \E current_value \in WeeklyValues : WeeklyReturnCall(current_value)

NextWeekly == WeeklyReturn

SpecWeekly == InitWeekly /\ [][NextWeekly]_vars

(***************************************************************************)
(* Properties.  A step's call is described by last'; the tables before     *)
(* the call are the unprimed variables.                                    *)
(***************************************************************************)
Executes == last'.op = "execute_transaction"
Sells == Executes /\ Upper(last'.action) = "SELL"
Buys == Executes /\ Upper(last'.action) = "BUY"
LedgerUnchanged ==
    /\ positions' = positions
    /\ transactions' = transactions
    /\ recommendations' = recommendations
Rejected == ~last'.ok /\ LedgerUnchanged
IdTaken == <<last'.action, last'.symbol, clock>> \in TransactionIds(transactions)

(* C1: a SELL of more shares than the open position (q > 0) holds fails and leaves
   the position, the transaction log and the recommendations as they were. *)
OversellRejected ==
    [][(/\ Sells
        /\ last'.symbol \in DOMAIN positions
        /\ positions[last'.symbol].quantity > 0
        /\ last'.quantity > positions[last'.symbol].quantity) => Rejected]_vars

(* C2: every row of the positions table has a quantity greater than 0. *)
PositionsPositive == \A symbol \in DOMAIN positions : positions[symbol].quantity > 0

(* C3: an execute_transaction call either commits the transaction row, the
   position change and the marking of the named recommendation together, or
   fails and leaves the three tables as they were. *)
LedgerWriteAtomic ==
    [][Executes =>
        IF last'.ok
        THEN /\ Len(transactions') = Len(transactions) + 1
             /\ SubSeq(transactions', 1, Len(transactions)) = transactions
             /\ LET row == transactions'[Len(transactions')]
                    held == IF row.symbol \in DOMAIN positions
                            THEN positions[row.symbol].quantity ELSE 0
                IN  /\ row.symbol = last'.symbol
                    /\ row.action = Upper(last'.action)
                    /\ row.quantity = last'.quantity
                    /\ row.price = last'.price
                    /\ row.recommendation_id = last'.recommendation_id
                    /\ row.action = "BUY" =>
                          /\ row.symbol \in DOMAIN positions'
                          /\ positions'[row.symbol].quantity = held + row.quantity
                    /\ (row.action = "SELL" /\ row.symbol \in DOMAIN positions) =>
                          IF held - row.quantity <= 0
                          THEN row.symbol \notin DOMAIN positions'
                          ELSE positions'[row.symbol].quantity = held - row.quantity
                    /\ row.recommendation_id \in DOMAIN recommendations =>
                          /\ recommendations'[row.recommendation_id].executed
                          /\ recommendations'[row.recommendation_id].execution_price
                                = Some(row.price)
        ELSE LedgerUnchanged]_vars

(* C3 witness: a linked BUY failed in _update_position, after its row had
   been inserted; the log and the recommendation show nothing of it. *)
RolledBackLinkedTrade ==
    /\ last.op = "execute_transaction"
    /\ last.error = "ZeroDivisionError"
    /\ last.recommendation_id \in DOMAIN recommendations
    /\ ~recommendations[last.recommendation_id].executed
    /\ Len(transactions) = 1

(* C4: a successful BUY of b shares at price p creates the position (b, p)
   when the symbol is absent and otherwise turns (q, c) into
   (q + b, (q*c + b*p) / (q + b)); commission plays no part.  A BUY of b > 0
   shares succeeds unless its transaction id is taken. *)
WeightedAverageCostOnBuy ==
    [][Buys =>
        LET symbol == last'.symbol
            b == last'.quantity
            p == last'.price
        IN  /\ (b > 0 /\ ~IdTaken) => last'.ok
            /\ last'.ok =>
                  /\ symbol \in DOMAIN positions'
                  /\ IF symbol \notin DOMAIN positions
                     THEN /\ positions'[symbol].quantity = b
                          /\ positions'[symbol].avg_cost = <<p, 1>>
                     ELSE LET q == positions[symbol].quantity
                              c == positions[symbol].avg_cost
                              new == positions'[symbol]
                          IN  /\ new.quantity = q + b
                              /\ new.avg_cost[1] * c[2] * (q + b)
                                    = (q * c[1] + b * p * c[2]) * new.avg_cost[2]]_vars

(* C4 witness: BUY 100 @ 150 then BUY 50 @ 180 holds 150 shares at 160. *)
BoughtTwice ==
    /\ last.op = "execute_transaction" /\ last.ok
    /\ last.action = "BUY" /\ last.quantity = 50 /\ last.price = 180
    /\ last.commission > 0
    /\ last.symbol \in DOMAIN positions
    /\ positions[last.symbol] = [quantity |-> 150, avg_cost |-> <<160, 1>>]

(* C5: a SELL of n shares, 0 < n < q, from the position (q, c) never changes
   the avg cost: when it succeeds the position is (q - n, c), when it fails
   the position is as before, and no other symbol's position changes.  It
   succeeds unless its transaction id is taken. *)
SellKeepsAvgCost ==
    [][(/\ Sells
        /\ last'.symbol \in DOMAIN positions
        /\ 0 < last'.quantity
        /\ last'.quantity < positions[last'.symbol].quantity) =>
        LET symbol == last'.symbol
            q == positions[symbol].quantity
        IN  /\ ~IdTaken => last'.ok
            /\ symbol \in DOMAIN positions'
            /\ positions'[symbol].avg_cost = positions[symbol].avg_cost
            /\ positions'[symbol].quantity = IF last'.ok THEN q - last'.quantity ELSE q
            /\ DOMAIN positions' = DOMAIN positions
            /\ \A other \in DOMAIN positions \ {symbol} :
                  positions'[other] = positions[other]]_vars

(* C5 witness: 50 of 100 shares bought at 150 were sold at 180. *)
SoldPart ==
    /\ last.op = "execute_transaction" /\ last.ok
    /\ last.action = "SELL" /\ last.quantity = 50 /\ last.price = 180
    /\ last.symbol \in DOMAIN positions
    /\ positions[last.symbol] = [quantity |-> 50, avg_cost |-> <<150, 1>>]

(* C6: a successful SELL of exactly the held quantity deletes the symbol's
   row, and get_positions never returns an entry for a symbol that has no
   row, whatever prices are supplied and whether or not the position had
   been cached before the SELL. *)
FullCloseRemovesPosition ==
    [][/\ (/\ Sells
           /\ last'.ok
           /\ last'.symbol \in DOMAIN positions
           /\ last'.quantity = positions[last'.symbol].quantity)
              => last'.symbol \notin DOMAIN positions'
       /\ (last'.op = "get_positions" /\ last'.ok)
              => \A symbol \in DOMAIN last'.result : symbol \in DOMAIN positions']_vars

(* C6 witness: after a BUY and a SELL of the whole position, a query that
   prices the symbol returns nothing for it. *)
ClosedPositionNotReturned ==
    /\ last.op = "get_positions" /\ last.ok
    /\ Len(transactions) = 2
    /\ transactions[1].action = "BUY" /\ transactions[1].quantity > 0
    /\ transactions[2].action = "SELL"
    /\ transactions[2].symbol = transactions[1].symbol
    /\ transactions[2].quantity = transactions[1].quantity
    /\ transactions[1].symbol \in DOMAIN last.prices
    /\ transactions[1].symbol \notin DOMAIN last.result
    /\ clock < transactions[1].timestamp + CacheTTL

(* C7: a SELL (quantity > 0, price > 0) of a symbol that has no open position
   fails: no transaction row, no recommendation marked, no position created. *)
SellAbsentRejected ==
    [][(/\ Sells
        /\ last'.quantity > 0
        /\ last'.price > 0
        /\ last'.symbol \notin DOMAIN positions) => Rejected]_vars

(* C8: a call with quantity <= 0 or price <= 0 is rejected before any
   ledger mutation. *)
NonPositiveRejected ==
    [][(Executes /\ (last'.quantity <= 0 \/ last'.price <= 0)) => Rejected]_vars

(* C9: every row of the transaction log has action BUY or SELL, quantity > 0,
   price > 0 and commission >= 0. *)
TransactionRowsValid ==
    \A i \in 1..Len(transactions) :
        /\ transactions[i].action \in {"BUY", "SELL"}
        /\ transactions[i].quantity > 0
        /\ transactions[i].price > 0
        /\ transactions[i].commission >= 0

(* C10: right after a completed execute_transaction, add_recommendation or
   save_portfolio_snapshot the position cache is empty. *)
CacheClearedOnWrite ==
    (/\ last.op \in {"execute_transaction", "add_recommendation",
                     "save_portfolio_snapshot"}
     /\ last.ok) => cache = EmptyMap

(* C11: add_recommendation stores executed = FALSE, and every recommendation
   with executed = TRUE has at least one row of the transaction log that
   carries its recommendation_id. *)
ExecutedHasTransaction ==
    /\ \A id \in DOMAIN recommendations :
          recommendations[id].executed =>
             \E i \in 1..Len(transactions) : transactions[i].recommendation_id = id
    /\ (last.op = "add_recommendation" /\ last.ok) =>
          /\ <<last.symbol, last.action, clock>> \in DOMAIN recommendations
          /\ ~recommendations[<<last.symbol, last.action, clock>>].executed

(* a recommendation stored by add_recommendation and later marked by a trade *)
ExecutedRecommendationLinked ==
    \E id \in DOMAIN recommendations :
        /\ recommendations[id].executed
        /\ \E i \in 1..Len(transactions) : transactions[i].recommendation_id = id

(* C12: once a recommendation is marked executed, no later step resets the
   flag or changes its execution_price or execution_date. *)
ExecutionLinkImmutable ==
    [][\A id \in DOMAIN recommendations :
          recommendations[id].executed =>
             /\ id \in DOMAIN recommendations'
             /\ recommendations'[id].executed
             /\ recommendations'[id].execution_price = recommendations[id].execution_price
             /\ recommendations'[id].execution_date = recommendations[id].execution_date]_vars

IsPrefix(s, t) == Len(s) <= Len(t) /\ SubSeq(t, 1, Len(s)) = s

(* C13: every step leaves the transaction log and the snapshot log a
   prefix-extension of what they were, and only save_portfolio_snapshot adds
   a snapshot. *)
LogsAppendOnly ==
    [][/\ IsPrefix(transactions, transactions')
       /\ IsPrefix(snapshots, snapshots')
       /\ snapshots' # snapshots => last'.op = "save_portfolio_snapshot"
       /\ Executes => snapshots' = snapshots]_vars

(* a trade committed after a snapshot was saved *)
TradeAfterSnapshot ==
    /\ Len(snapshots) >= 1
    /\ Len(transactions) >= 1
    /\ last.op = "execute_transaction"
    /\ last.ok
    /\ transactions[Len(transactions)].timestamp >= snapshots[1].timestamp

(* C14: get_positions raises nothing, and every position it returns, from
   the store or from the cache, has unrealized_pnl = quantity * (current_price
   - avg_cost) and unrealized_pnl_pct = unrealized_pnl / (quantity * avg_cost)
   * 100, the percentage being 0 when the cost basis is 0. *)
PnlDefinedOnBothPaths ==
    last.op = "get_positions" =>
        /\ last.ok
        /\ \A symbol \in DOMAIN last.result :
              LET p == last.result[symbol]
                  basis == RatMul(RatInt(p.quantity), p.avg_cost)
              IN  /\ p.unrealized_pnl =
                        RatMul(RatInt(p.quantity), RatSub(p.current_price, p.avg_cost))
                  /\ p.unrealized_pnl_pct =
                        IF RatIsZero(basis) THEN Zero
                        ELSE RatMul(RatDiv(p.unrealized_pnl, basis), Hundred)

(***************************************************************************)
(* Properties of the recommendation engine, over the calls made.           *)
(***************************************************************************)
Returned(call) == call.state = "returned"
Scored(call) == Returned(call) /\ "score" \in DOMAIN call.result
MadeCalls == {calls[i] : i \in 1..Len(calls)}

(* C15: the composite score of every result that carries one is in [-1, 1],
   whatever the risk profile and whichever indicators are in the frame. *)
ScoreInRange ==
    \A call \in MadeCalls :
        Scored(call) =>
            /\ -call.result.score[2] <= call.result.score[1]
            /\ call.result.score[1] <= call.result.score[2]

(* an engine of an unrecognised profile scoring a frame with one indicator *)
UnknownProfileOneIndicator ==
    \E call \in MadeCalls :
        /\ Scored(call)
        /\ call.result.risk_tolerance = "balanced"
        /\ DOMAIN call.result.individual_scores = {"rsi"}
        /\ call.result.score = <<4, 5>>

(* the columns an indicator is read from *)
ColumnsOf(indicator) ==
    IF indicator = "rsi" THEN {"rsi"}
    ELSE IF indicator = "macd" THEN {"macd"}
    ELSE IF indicator = "moving_averages" THEN MaColumnNames
    ELSE IF indicator = "bollinger_bands" THEN BbColumnNames
    ELSE {"volume", "volume_ma"}

LatestDefined(data, indicator) ==
    \A c \in ColumnsOf(indicator) \cap DOMAIN data[1] : IsNum(data[Len(data)][c])

(* C16: the composite score is the weighted mean over the indicators whose
   latest value is defined; an indicator whose latest value is the missing
   marker adds neither a score nor its weight. *)
UndefinedIndicatorsLeftOut ==
    \A call \in MadeCalls :
        Scored(call) =>
            LET scores == call.result.individual_scores
                defined == {c \in DOMAIN scores : LatestDefined(call.data, c)}
            IN  call.result.score =
                    FinalScore([c \in defined |-> [score |-> scores[c]]],
                               engines[call.engine].score_weights)

(* C17: the action is BUY exactly when the composite score is above 0.15,
   SELL exactly when it is below -0.15, and HOLD otherwise, 0.15 and -0.15
   included. *)
ActionMatchesThresholds ==
    \A call \in MadeCalls :
        Scored(call) =>
            LET s == call.result.score
            IN  call.result.action =
                    IF 20 * s[1] > 3 * s[2] THEN "BUY"
                    ELSE IF 20 * s[1] < -3 * s[2] THEN "SELL"
                    ELSE "HOLD"

(* a composite score of exactly 0.15 *)
ScoreOnThreshold ==
    \E call \in MadeCalls :
        /\ Scored(call)
        /\ call.result.score = <<3, 20>>
        /\ call.result.action = "HOLD"

(* C18 as stated: confidence is in [0, 100] and equals 20 + |s| * 150 cut to
   [0, 95] for BUY and SELL, and the larger of 50 and 80 - |s| * 100 for HOLD. *)
ConfidenceExactFormula ==
    \A call \in MadeCalls :
        Scored(call) =>
            LET s == RatAbs(call.result.score)
                confidence == RatInt(call.result.confidence)
                signal == RatAdd(RatInt(20), RatMul(s, RatInt(150)))
                hold == RatSub(RatInt(80), RatMul(s, RatInt(100)))
            IN  /\ call.result.confidence \in 0..100
                /\ confidence =
                      IF call.result.action = "HOLD"
                      THEN (IF RatLt(hold, RatInt(50)) THEN RatInt(50) ELSE hold)
                      ELSE (IF RatLt(RatInt(95), signal) THEN RatInt(95) ELSE signal)

(* C18: confidence is an integer in [0, 100]: for BUY and SELL the whole
   part of 20 + |s| * 150, at most 95; for HOLD the whole part of
   80 - |s| * 100, at least 50; 0 in a result without a score. *)
ConfidenceTruncatedFormula ==
    \A call \in MadeCalls :
        Returned(call) =>
            /\ call.result.confidence \in 0..100
            /\ IF Scored(call)
               THEN LET n == Abs(call.result.score[1])
                        d == call.result.score[2]
                        signal == (20 * d + 150 * n) \div d
                        hold == (80 * d - 100 * n) \div d
                    IN  call.result.confidence =
                            IF call.result.action = "HOLD"
                            THEN (IF hold < 50 THEN 50 ELSE hold)
                            ELSE (IF signal > 95 THEN 95 ELSE signal)
               ELSE call.result.confidence = 0

(* a BUY whose 20 + |s| * 150 is not a whole number *)
FractionalConfidence ==
    \E call \in MadeCalls :
        /\ Scored(call)
        /\ call.result.action = "BUY"
        /\ (150 * call.result.score[1]) % call.result.score[2] # 0
        /\ call.result.confidence < 95

Fails(call) ==
    \/ call.data = <<>>
    \/ "close" \notin DOMAIN call.data[1]
    \/ ("beta" \in DOMAIN call.stock_info /\ call.stock_info["beta"] = None)

(* C19: no call of generate_recommendation raises; a call on an empty frame,
   or one that fails inside (no close column, a beta of None), returns
   action HOLD and confidence 0 with a reason. *)
NeverRaises ==
    \A call \in MadeCalls :
        /\ call.state # "raised"
        /\ (Returned(call) /\ Fails(call)) =>
              /\ call.result.action = "HOLD"
              /\ call.result.confidence = 0
              /\ Len(call.result.reasoning) > 0

(* a failure inside the scoring, and an empty frame, both answered *)
FailureAnswered ==
    \E call \in MadeCalls :
        /\ Returned(call)
        /\ call.data # <<>>
        /\ call.result.reasoning = <<"Error in analysis", "TypeError">>

SameInputs(a, b) ==
    /\ a.data = b.data
    /\ a.stock_info = b.stock_info
    /\ engines[a.engine].risk_tolerance = engines[b.engine].risk_tolerance

(* C20 as stated: two calls with the same data, stock info and risk profile
   return results equal in every field. *)
SameInputsSameOutput ==
    \A a \in MadeCalls, b \in MadeCalls :
        (Returned(a) /\ Returned(b) /\ SameInputs(a, b)) => a.result = b.result

Untimed(result) == [f \in (DOMAIN result) \ {"timestamp"} |-> result[f]]

(* C20: two calls with the same data, stock info and risk profile return
   results equal in every field but the timestamp. *)
SameInputsSameOutputButTimestamp ==
    \A a \in MadeCalls, b \in MadeCalls :
        (Returned(a) /\ Returned(b) /\ SameInputs(a, b)) =>
            Untimed(a.result) = Untimed(b.result)

(* the same inputs given to two engines a second apart *)
RepeatedOnSecondEngine ==
    /\ Len(calls) = 2
    /\ Returned(calls[1]) /\ Returned(calls[2])
    /\ SameInputs(calls[1], calls[2])
    /\ calls[1].engine # calls[2].engine
    /\ "timestamp" \in DOMAIN calls[1].result
    /\ calls[1].result.timestamp # calls[2].result.timestamp

(***************************************************************************)
(* Properties of the technical analyzer.                                   *)
(***************************************************************************)
IndicatorResults(data) ==
    <<CalculateRsi(data), CalculateMacd(data), CalculateMovingAverages(data),
      CalculateBollingerBands(data), CalculateStochastic(data)>>

(* C21: when one indicator fails on a frame, the frame that                *)
(* calculate_all_indicators returns still has the columns of every         *)
(* indicator that can be computed on that frame                            *)
IndicatorFailuresIsolated ==
    \A i \in 1..Len(calls) :
        (calls[i].op = "calculate_all_indicators" /\ calls[i].state = "returned")
            => \A k \in 1..5 :
                  LET indicator == IndicatorResults(calls[i].data)[k]
                  IN  indicator.error = "none"
                          => indicator.columns \subseteq DOMAIN calls[i].result

(* the band of the RSI table that a reading falls in *)
RsiBand(v) ==
    IF v < 30 THEN Tenths(8)
    ELSE IF 30 <= v /\ v < 40 THEN Tenths(6)
    ELSE IF 60 < v /\ v <= 70 THEN Tenths(-6)
    ELSE IF v > 70 THEN Tenths(-8)
    ELSE Zero

(* C25: calculate_rsi_score gives +0.8 below 30, +0.6 from 30 up to but    *)
(* not including 40, -0.6 above 60 up to and including 70, -0.8 above 70   *)
(* and 0 otherwise, so 30, 40, 60 and 70 score +0.6, 0, 0 and -0.6         *)
RsiScoreBands ==
    \A i \in 1..Len(calls) :
        (calls[i].op = "calculate_rsi_score" /\ calls[i].state = "returned")
            => LET v == calls[i].rsi_value
                   score == calls[i].result.score
               IN  /\ IsNum(v) => score = RsiBand(v[1])
                   /\ ~IsNum(v) => score = Zero
                   /\ v = Num(30) => score = Tenths(6)
                   /\ v = Num(40) => score = Zero
                   /\ v = Num(60) => score = Zero
                   /\ v = Num(70) => score = Tenths(-6)

RsiOnBoundary ==
    \E i \in 1..Len(calls) :
        /\ calls[i].op = "calculate_rsi_score"
        /\ calls[i].state = "returned"
        /\ calls[i].rsi_value = Num(70)
        /\ calls[i].result.score = Tenths(-6)

(* the sub-signals of the moving-average table, in tenths, for a price p,  *)
(* a 20-day SMA s and the two SMAs on the previous and the latest bar      *)
PriceSignals(p, s) ==
    IF p * 100 > s * 102 THEN <<5>>
    ELSE IF p > s THEN <<3>>
    ELSE IF p * 100 < s * 98 THEN <<-5>>
    ELSE IF p < s THEN <<-3>>
    ELSE <<>>

CrossSignals(prev20, prev50, cur20, cur50) ==
    IF prev20 <= prev50 /\ cur20 > cur50 THEN <<8>>
    ELSE IF prev20 >= prev50 /\ cur20 < cur50 THEN <<-8>>
    ELSE <<>>

MaCallDefined(call) ==
    /\ call.op = "calculate_ma_score"
    /\ call.state = "returned"
    /\ \A k \in 1..Len(call.ma_data) :
          \A c \in DOMAIN call.ma_data[k] : IsNum(call.ma_data[k][c])

(* C26: the moving-average score is the arithmetic mean of the sub-signals *)
(* detected: +0.5 / +0.3 / -0.5 / -0.3 for the price against the 20-day    *)
(* SMA and +0.8 / -0.8 only when the 20-day SMA crosses the 50-day SMA     *)
(* between the previous and the latest bar; a price strictly below the     *)
(* 20-day SMA with no cross scores negative and no sub-signal scores 0     *)
MaScoreIsMeanOfSubSignals ==
    \A i \in 1..Len(calls) :
        MaCallDefined(calls[i]) =>
            LET call == calls[i]
                n == Len(call.ma_data)
                cur == call.ma_data[n]
                p == call.price[1]
                has20 == "sma_20" \in DOMAIN cur
                has50 == "sma_50" \in DOMAIN cur
                price_signals == IF has20 THEN PriceSignals(p, cur["sma_20"][1]) ELSE <<>>
                cross_signals ==
                    IF has20 /\ has50 /\ n > 1
                    THEN CrossSignals(call.ma_data[n - 1]["sma_20"][1],
                                      call.ma_data[n - 1]["sma_50"][1],
                                      cur["sma_20"][1], cur["sma_50"][1])
                    ELSE <<>>
                signals == price_signals \o cross_signals
                total == IF Len(signals) = 2 THEN signals[1] + signals[2]
                         ELSE IF Len(signals) = 1 THEN signals[1] ELSE 0
                score == call.result.score
            IN  /\ (has20 /\ p # cur["sma_20"][1])
                       => score = Rat(total, 10 * Len(signals))
                /\ (has20 /\ p < cur["sma_20"][1] /\ cross_signals = <<>>)
                       => RatLt(score, Zero)
                /\ ~has20 => score = Zero

BelowSmaWithGoldenCross ==
    \E i \in 1..Len(calls) :
        /\ MaCallDefined(calls[i])
        /\ calls[i].price = Num(99)
        /\ Len(calls[i].ma_data) = 2
        /\ calls[i].ma_data[1] = [sma_20 |-> Num(100), sma_50 |-> Num(100)]
        /\ calls[i].ma_data[2] = [sma_20 |-> Num(100), sma_50 |-> Num(99)]
        /\ calls[i].result.score = Rat(25, 100)

(***************************************************************************)
(* Properties of the holdings analyzer.                                    *)
(***************************************************************************)
SummaryCall(call) ==
    call.op = "_generate_holdings_summary" /\ call.state = "returned"

(* the items of a map that succeeded with the given action *)
SignalsOf(holdings_analysis, action) ==
    {i \in 1..Len(holdings_analysis) :
        /\ holdings_analysis[i][2].success
        /\ holdings_analysis[i][2].action = action}

(* strongest is absent iff no item carries the action, and otherwise is    *)
(* one of those items with a confidence no other of them exceeds           *)
StrongestOf(holdings_analysis, action, strongest) ==
    LET S == SignalsOf(holdings_analysis, action)
    IN  /\ (strongest = None) <=> (S = {})
        /\ strongest # None =>
              /\ \E i \in S : /\ holdings_analysis[i][1] = strongest[1].symbol
                              /\ holdings_analysis[i][2].confidence
                                     = strongest[1].confidence
              /\ \A i \in S : holdings_analysis[i][2].confidence
                                  <= strongest[1].confidence

RECURSIVE ConfidenceSum(_, _)
ConfidenceSum(holdings_analysis, S) ==
    IF S = {} THEN 0
    ELSE LET i == CHOOSE k \in S : TRUE
         IN  holdings_analysis[i][2].confidence
                 + ConfidenceSum(holdings_analysis, S \ {i})

(* C30: in the summary the BUY, SELL and HOLD counts add up to the         *)
(* successful analyses and these with the errors to the holdings;          *)
(* strongest_buy and strongest_sell are absent exactly when there is no    *)
(* such signal and otherwise have the greatest confidence among them;      *)
(* avg_confidence is the mean confidence of the successful analyses, 0     *)
(* when there are none                                                     *)
SummaryConsistent ==
    \A c \in 1..Len(calls) :
        SummaryCall(calls[c]) =>
            LET h == calls[c].holdings_analysis
                s == calls[c].result
                ok == {i \in 1..Len(h) : h[i][2].success}
            IN  /\ s.buy_signals + s.sell_signals + s.hold_signals
                       = s.successful_analyses
                /\ s.successful_analyses + s.errors = s.total_holdings
                /\ s.total_holdings = Len(h)
                /\ s.successful_analyses = Cardinality(ok)
                /\ StrongestOf(h, "BUY", s.strongest_buy)
                /\ StrongestOf(h, "SELL", s.strongest_sell)
                /\ ok = {} => s.avg_confidence = Zero
                /\ ok # {} => RatMul(s.avg_confidence, RatInt(Cardinality(ok)))
                                  = RatInt(ConfidenceSum(h, ok))

SummaryOfMixedHoldings ==
    \E c \in 1..Len(calls) :
        /\ SummaryCall(calls[c])
        /\ calls[c].result.errors = 1
        /\ calls[c].result.buy_signals = 2
        /\ calls[c].result.strongest_buy # None
        /\ calls[c].result.strongest_buy[1].confidence = 80
        /\ calls[c].result.strongest_buy[1].symbol = "AAPL"
        /\ calls[c].result.strongest_sell = None
        /\ calls[c].result.avg_confidence = RatInt(75)

AnalyzedHoldings == last.op = "analyze_all_holdings"

(* the analysis of a symbol fails when the market has no data for it or    *)
(* when an indicator cannot be computed on the data                        *)
AnalysisFails(entry) ==
    \/ entry.feed = EmptyFeed
    \/ CalculateAllIndicators(entry.feed.dtypes) = entry.feed.dtypes

(* C22: analyze_all_holdings never aborts; its result has exactly one      *)
(* entry per open position, with success = false and an error for every    *)
(* symbol whose analysis fails and the full analysis for every other       *)
HoldingsIsolated ==
    AnalyzedHoldings =>
        /\ last.ok
        /\ LET items == last.result.holdings_analysis
           IN  /\ Len(items) = Cardinality(DOMAIN positions)
               /\ \A symbol \in DOMAIN positions :
                     \E i \in 1..Len(items) :
                        /\ items[i][1] = symbol
                        /\ IF AnalysisFails(last.market[symbol])
                           THEN /\ ~items[i][2].success
                                /\ "error" \in DOMAIN items[i][2]
                           ELSE /\ items[i][2].success
                                /\ {"action", "confidence", "holding_details",
                                    "position_advice", "technical_summary"}
                                       \subseteq DOMAIN items[i][2]

(* the beta the market knows for a symbol, None when it knows none *)
KnownBeta(info) ==
    IF info.limited \/ "beta" \notin DOMAIN info.fields THEN None
    ELSE info.fields["beta"]

(* the position size of the sizing table for a profile, a confidence and a *)
(* beta in tenths                                                          *)
TableSize(risk_tolerance, confidence, beta) ==
    LET base == IF risk_tolerance = "conservative" THEN 5
                ELSE IF risk_tolerance = "aggressive" THEN 15 ELSE 10
        cap == IF risk_tolerance = "conservative" THEN 10
               ELSE IF risk_tolerance = "aggressive" THEN 25 ELSE 20
        adjustment == IF beta # None /\ beta[1] > 15 THEN Tenths(7)
                      ELSE IF beta # None /\ beta[1] < 7 THEN Tenths(12)
                      ELSE RatInt(1)
    IN  RatMin(RatMul(Rat(base * confidence, 100), adjustment), RatInt(cap))

(* C23: the suggested position size is base * confidence/100 * adjustment, *)
(* the adjustment being 0.7 for a beta above 1.5, 1.2 for a beta below 0.7 *)
(* and 1.0 otherwise, also when no beta is known, and never exceeds the    *)
(* cap of the profile                                                      *)
PositionSizeFollowsBeta ==
    (AnalyzedHoldings /\ last.ok) =>
        \A i \in 1..Len(last.result.holdings_analysis) :
            LET symbol == last.result.holdings_analysis[i][1]
                holding == last.result.holdings_analysis[i][2]
            IN  (holding.success /\ "score" \in DOMAIN holding) =>
                    /\ "position_size_pct" \in DOMAIN holding
                    /\ holding.position_size_pct
                           = TableSize(last.risk_tolerance, holding.confidence,
                                       KnownBeta(last.market[symbol].info))

(***************************************************************************)
(* Properties of the weekly return.                                        *)
(***************************************************************************)
(* C24: _calculate_weekly_return(v) is (v - p) / p * 100 for the total     *)
(* value p of the most recent snapshot taken at or before now minus seven  *)
(* days, never of a newer one, and 0 when there is no such snapshot        *)
WeeklyReturnUsesLatestOldSnapshot ==
    last.op = "_calculate_weekly_return" =>
        LET old == {i \in 1..Len(snapshots) : snapshots[i].timestamp + Week <= clock}
            v == RatInt(last.current_value)
        IN  /\ old = {} => last.result = Zero
            /\ old # {} =>
                  \E i \in old :
                     /\ \A j \in old : snapshots[j].timestamp <= snapshots[i].timestamp
                     /\ LET p == snapshots[i].total_value
                        IN  ~RatIsZero(p) =>
                               RatMul(last.result, p) = RatMul(RatSub(v, p), Hundred)

WeeklyReturnSkipsNewerSnapshot ==
    /\ last.op = "_calculate_weekly_return"
    /\ clock = Week + 1
    /\ Len(snapshots) = 3
    /\ snapshots[1].timestamp = 0 /\ snapshots[1].total_value = RatInt(100)
    /\ snapshots[2].timestamp = 1 /\ snapshots[2].total_value = RatInt(200)
    /\ snapshots[3].timestamp = 2 /\ snapshots[3].total_value = RatInt(100)
    /\ last.current_value = 150
    /\ last.result = RatInt(-25)

(***************************************************************************)
(* Further properties of the ledger.                                       *)
(***************************************************************************)
(* the shares of a symbol bought less those sold, over a transaction log *)
RECURSIVE NetQuantity(_, _)
NetQuantity(txs, symbol) ==
    IF txs = <<>> THEN 0
    ELSE LET row == Head(txs)
             signed == IF row.symbol # symbol THEN 0
                       ELSE IF row.action = "BUY" THEN row.quantity
                       ELSE IF row.action = "SELL" THEN -row.quantity
                       ELSE 0
         IN  signed + NetQuantity(Tail(txs), symbol)

(* C27: for every symbol the quantity of its position, 0 when it has none, *)
(* is the sum of the quantities of its recorded BUY transactions less the  *)
(* sum of those of its recorded SELL transactions                          *)
QuantityConserved ==
    \A symbol \in Symbols :
        (IF symbol \in DOMAIN positions THEN positions[symbol].quantity ELSE 0)
            = NetQuantity(transactions, symbol)

(* C28: get_positions returns exactly one entry for every row of the       *)
(* positions table, with the row's quantity and average cost, whether the  *)
(* answer comes from the cache or from the store                           *)
CacheTransparent ==
    last.op = "get_positions" =>
        /\ last.ok
        /\ DOMAIN last.result = DOMAIN positions
        /\ \A symbol \in DOMAIN positions :
              /\ last.result[symbol].quantity = positions[symbol].quantity
              /\ last.result[symbol].avg_cost = positions[symbol].avg_cost

(* C29: an execute_transaction with the action and symbol of a transaction *)
(* already recorded in the same clock second fails on the primary key and  *)
(* leaves positions, the transaction log and the recommendations as they   *)
(* were                                                                    *)
IdCollisionRejected ==
    [][(/\ Executes
        /\ \E i \in 1..Len(transactions) :
              /\ transactions[i].action = last'.action
              /\ transactions[i].symbol = last'.symbol
              /\ transactions[i].timestamp = clock)
          => (/\ ~last'.ok
              /\ last'.error = "IntegrityError"
              /\ LedgerUnchanged
              /\ snapshots' = snapshots)]_vars

SecondTradeInSameSecondRefused ==
    /\ last.op = "execute_transaction"
    /\ last.error = "IntegrityError"
    /\ last.action = "BUY" /\ last.quantity = 50
    /\ last.recommendation_id \in DOMAIN recommendations
    /\ ~recommendations[last.recommendation_id].executed
    /\ Len(transactions) = 1
    /\ transactions[1].action = "BUY"
    /\ transactions[1].symbol = last.symbol
    /\ transactions[1].timestamp = clock
    /\ transactions[1].quantity = 50
    /\ positions[last.symbol].quantity = 50

====
